---------------------------- MODULE Spec2Model ----------------------------
(* Connection-lifecycle orchestrator and agent-provisioning pipeline.       *)
(*                                                                          *)
(* Text is modelled as a sequence of symbols.  A symbol is one character;   *)
(* long literals that the program only compares or copies (recipe ids) are  *)
(* one indivisible, whitespace-free symbol.  Whitespace is the symbols " "  *)
(* and "\t".                                                                *)
EXTENDS Integers, Sequences, FiniteSets, TLC

(* ------------------------------------------------------------------ *)
(* Bounds of the model                                                *)
(* ------------------------------------------------------------------ *)

\* Number of onboard.simple request slots (requests that may be in flight).
NumCalls == 2

\* Longest appNames list given to connect_multiple.
MaxBatch == 2

\* Invocations of the composio tool among which a connect_multiple batch
\* may start.
MaxToolCalls == 1

\* Calls of getComposioClient and clearComposioClient made directly.
MaxGets == 3

\* Invocations of the composio tool and of the onboard.auth handlers,
\* one after another.
MaxOps == 2

VARIABLES
    persisted,  \* the configuration document in durable storage
    dirs,       \* directories that exist on disk
    files,      \* workspace files on disk: records [dir, name, content]
    call,       \* per onboard.simple request: handler position and locals
    provisioned, \* history: agent ids for which onboard.simple wrote the config
    toolOpts,   \* the options the composio tool was created with
    tool,       \* the composio tool's invocation: position, locals, result
    toolCalls,  \* invocations of the composio tool so far
    brokerAccounts, \* connected accounts the broker has created (the last id)
    brokerCalls, \* requests the broker has received
    brokerRecords, \* the broker's connected accounts, by id: status, live
    rpc,        \* the onboard.auth handler invocation: position, responses
    cachedClient, \* client.ts: the cached client (its identity), or null
    cachedApiKey, \* client.ts: the API key the cached client was made for
    cachedBaseUrl, \* client.ts: the base URL the cached client was made for
    clients,    \* every client constructed so far: what it was constructed with
    env,        \* process.env: COMPOSIO_API_KEY and COMPOSIO_BASE_URL
    lastGet     \* history: the last getComposioClient / clearComposioClient call

simpleVars == <<persisted, dirs, files, call, provisioned>>

toolVars == <<toolOpts, tool, toolCalls, brokerAccounts, brokerCalls,
              brokerRecords, rpc>>

cacheVars == <<cachedClient, cachedApiKey, cachedBaseUrl, clients>>

clientVars == <<cacheVars, env, lastGet>>

vars == <<simpleVars, toolVars, clientVars>>

Calls == 1..NumCalls

(* ------------------------------------------------------------------ *)
(* Text helpers                                                       *)
(* ------------------------------------------------------------------ *)

IsSpace(ch) == ch \in {" ", "\t"}

RECURSIVE TrimLeft(_)
TrimLeft(s) ==
    IF s # <<>> /\ IsSpace(Head(s)) THEN TrimLeft(Tail(s)) ELSE s

RECURSIVE TrimRight(_)
TrimRight(s) ==
    IF s # <<>> /\ IsSpace(s[Len(s)])
    THEN TrimRight(SubSeq(s, 1, Len(s) - 1))
    ELSE s

\* String.prototype.trim
Trim(s) == TrimRight(TrimLeft(s))

\* value.replace(/\s+/g, " "): every maximal whitespace run becomes one " ".
RECURSIVE CollapseSpaces(_)
CollapseSpaces(s) ==
    IF s = <<>> THEN <<>>
    ELSE IF IsSpace(Head(s))
         THEN <<" ">> \o CollapseSpaces(TrimLeft(s))
         ELSE <<Head(s)>> \o CollapseSpaces(Tail(s))

\* Mutant: the name is trimmed but its whitespace runs are kept.
sanitizeLine_TrimOnly(value) == Trim(value)

\* sanitizeLine: collapse whitespace runs, then trim.
sanitizeLine(value) == Trim(CollapseSpaces(value))

LowerChar(ch) ==
    CASE ch = "A" -> "a"
      [] ch = "B" -> "b"
      [] ch = "H" -> "h"
      [] ch = "I" -> "i"
      [] ch = "M" -> "m"
      [] ch = "N" -> "n"
      [] OTHER -> ch

UpperChar(ch) ==
    CASE ch = "a" -> "A"
      [] ch = "b" -> "B"
      [] ch = "g" -> "G"
      [] ch = "h" -> "H"
      [] ch = "i" -> "I"
      [] ch = "m" -> "M"
      [] ch = "n" -> "N"
      [] ch = "s" -> "S"
      [] OTHER -> ch

toLowerCase(s) == [i \in 1..Len(s) |-> LowerChar(s[i])]

toUpperCase(s) == [i \in 1..Len(s) |-> UpperChar(s[i])]

\* Characters an agent id keeps: [a-z0-9_-].
IdChar(ch) ==
    ch \in {"a", "b", "h", "i", "m", "n", "0", "1", "_", "-"}

\* Every maximal run of characters outside [a-z0-9_-] becomes one "-".
RECURSIVE DashRuns(_)
DashRuns(s) ==
    IF s = <<>> THEN <<>>
    ELSE IF IdChar(Head(s))
         THEN <<Head(s)>> \o DashRuns(Tail(s))
         ELSE IF Len(s) > 1 /\ ~IdChar(s[2])
              THEN DashRuns(Tail(s))
              ELSE <<"-">> \o DashRuns(Tail(s))

RECURSIVE StripLeadingDashes(_)
StripLeadingDashes(s) ==
    IF s # <<>> /\ Head(s) = "-" THEN StripLeadingDashes(Tail(s)) ELSE s

RECURSIVE StripTrailingDashes(_)
StripTrailingDashes(s) ==
    IF s # <<>> /\ s[Len(s)] = "-"
    THEN StripTrailingDashes(SubSeq(s, 1, Len(s) - 1))
    ELSE s

\* The platform's reserved default-agent id.
DEFAULT_AGENT_ID == <<"m", "a", "i", "n">>

\* normalizeAgentId: the slug of a name (trim, lower-case, unsafe runs to
\* "-", no leading or trailing "-"); a name with no usable character gets
\* the default agent id.
normalizeAgentId(value) ==
    LET slug == StripTrailingDashes(StripLeadingDashes(
                    DashRuns(toLowerCase(Trim(value)))))
    IN IF slug = <<>> THEN DEFAULT_AGENT_ID ELSE slug


(* ------------------------------------------------------------------ *)
(* Recipe catalog                                                     *)
(* ------------------------------------------------------------------ *)

\* The static catalogue; no recipe of it carries tool notes (tools = "").
RECIPES ==
    << [id |-> <<"daily-assistant">>, label |-> "Daily Assistant",
        emoji |-> "star", soul |-> "soul:daily-assistant",
        agents |-> "agents:daily-assistant", tools |-> ""],
       [id |-> <<"creative-partner">>, label |-> "Creative Partner",
        emoji |-> "palette", soul |-> "soul:creative-partner",
        agents |-> "agents:creative-partner", tools |-> ""],
       [id |-> <<"research-analyst">>, label |-> "Research Analyst",
        emoji |-> "lens", soul |-> "soul:research-analyst",
        agents |-> "agents:research-analyst", tools |-> ""],
       [id |-> <<"learning-coach">>, label |-> "Learning Coach",
        emoji |-> "books", soul |-> "soul:learning-coach",
        agents |-> "agents:learning-coach", tools |-> ""] >>

\* The value getRecipe returns for an id that is not in the catalogue.
NoRecipe ==
    [id |-> <<>>, label |-> "", emoji |-> "", soul |-> "", agents |-> "",
     tools |-> ""]

listRecipes == RECIPES

\* Mutant: an id that is not in the catalogue gets the first recipe.
getRecipe_Fallback(id) ==
    IF \E i \in 1..Len(RECIPES) : RECIPES[i].id = id
    THEN RECIPES[CHOOSE i \in 1..Len(RECIPES) : RECIPES[i].id = id]
    ELSE RECIPES[1]

\* recipeById.get(id): the catalogue's recipe with this id, or not found.
getRecipe(id) ==
    IF \E i \in 1..Len(RECIPES) : RECIPES[i].id = id
    THEN RECIPES[CHOOSE i \in 1..Len(RECIPES) : RECIPES[i].id = id]
    ELSE NoRecipe

listRecipeIds == [i \in 1..Len(RECIPES) |-> RECIPES[i].id]

(* ------------------------------------------------------------------ *)
(* Configuration document and agent registry                          *)
(* ------------------------------------------------------------------ *)

\* A path: a root and the agent id below it.
NoPath == [root |-> "", id |-> <<>>]

SIMPLE_ONBOARD_MODEL == "minimax/MiniMax-M2.5"

listAgentEntries(cfg) == cfg.agents

\* Index of the entry with this id, -1 when there is none.
findAgentEntryIndex(list, agentId) ==
    IF \E i \in 1..Len(list) : list[i].id = agentId
    THEN CHOOSE i \in 1..Len(list) :
            /\ list[i].id = agentId
            /\ \A j \in 1..(i - 1) : list[j].id # agentId
    ELSE -1

\* Merge the given fields into the entry of agentId, adding the entry when
\* the registry has none.  An empty field leaves the entry's value alone.
applyAgentConfig(cfg, params) ==
    LET list == listAgentEntries(cfg)
        index == findAgentEntryIndex(list, params.agentId)
        base == IF index >= 0 THEN list[index]
                ELSE [id |-> params.agentId, name |-> <<>>,
                      workspace |-> NoPath, agentDir |-> NoPath]
        nextEntry ==
            [id |-> base.id,
             name |-> IF params.name # <<>> THEN params.name ELSE base.name,
             workspace |-> IF params.workspace # NoPath THEN params.workspace
                           ELSE base.workspace,
             agentDir |-> IF params.agentDir # NoPath THEN params.agentDir
                          ELSE base.agentDir]
        nextList == IF index >= 0 THEN [list EXCEPT ![index] = nextEntry]
                    ELSE Append(list, nextEntry)
    IN [cfg EXCEPT !.agents = nextList]

applyMinimaxApiConfig(cfg) == [cfg EXCEPT !.model = SIMPLE_ONBOARD_MODEL]

resolveAgentDir(cfg, agentId) == [root |-> "agents", id |-> agentId]

resolveSessionTranscriptsDirForAgent(agentId) ==
    [root |-> "sessions", id |-> agentId]

\* cfg.agents?.defaults?.workspace ?? "~/.openclaw/workspace", joined with
\* the agent id.
WorkspaceDirOf(cfg, agentId) ==
    [root |-> IF cfg.workspaceRoot # "" THEN cfg.workspaceRoot
              ELSE "~/.openclaw/workspace",
     id |-> agentId]

AgentIds(cfg) == {cfg.agents[i].id : i \in 1..Len(cfg.agents)}

(* ------------------------------------------------------------------ *)
(* onboard.simple                                                     *)
(* ------------------------------------------------------------------ *)

ErrorCodes == [INVALID_REQUEST |-> "INVALID_REQUEST", UNAVAILABLE |-> "UNAVAILABLE"]

\* A failure response: respond(false, undefined, errorShape(code, message)).
errorShape(code, message) ==
    [ok |-> FALSE, code |-> code, msg |-> message, agentId |-> <<>>,
     workspace |-> NoPath, recipeId |-> <<>>, model |-> ""]

\* The success response of onboard.simple.
SimpleOk(agentId, workspaceDir, recipeId) ==
    [ok |-> TRUE, code |-> "", msg |-> "", agentId |-> agentId,
     workspace |-> workspaceDir, recipeId |-> recipeId,
     model |-> SIMPLE_ONBOARD_MODEL]

\* OnboardSimpleParamsSchema: userName, botName and recipeId are non-empty
\* strings, entityId is an optional string.
validateOnboardSimpleParams(p) ==
    /\ p.userName # <<>>
    /\ p.botName # <<>>
    /\ p.recipeId # <<>>

\* typeof params.entityId === "string" ? params.entityId.trim() : undefined;
\* undefined and "" are both falsy and both <<>> here.
EntityIdOf(p) ==
    IF p.entityId.present THEN Trim(p.entityId.value) ELSE <<>>

\* Mutant: the uniqueness check is missing.
SimpleVerdict_NoDupCheck(p, stored) ==
    LET botName == sanitizeLine(p.botName)
        recipeId == Trim(p.recipeId)
        agentId == normalizeAgentId(botName)
    IN IF ~validateOnboardSimpleParams(p) THEN "invalid params"
       ELSE IF getRecipe(recipeId) = NoRecipe THEN "unknown recipe"
       ELSE IF agentId = DEFAULT_AGENT_ID THEN "reserved"
       ELSE "ok"

\* Mutant: the reserved-id check is missing.
SimpleVerdict_NoReservedCheck(p, stored) ==
    LET botName == sanitizeLine(p.botName)
        recipeId == Trim(p.recipeId)
        agentId == normalizeAgentId(botName)
    IN IF ~validateOnboardSimpleParams(p) THEN "invalid params"
       ELSE IF getRecipe(recipeId) = NoRecipe THEN "unknown recipe"
       ELSE IF findAgentEntryIndex(listAgentEntries(stored), agentId) >= 0
            THEN "already exists"
       ELSE "ok"

\* Mutant: the reserved-id check comes before the recipe lookup.
SimpleVerdict_ReservedFirst(p, stored) ==
    LET botName == sanitizeLine(p.botName)
        recipeId == Trim(p.recipeId)
        agentId == normalizeAgentId(botName)
    IN IF ~validateOnboardSimpleParams(p) THEN "invalid params"
       ELSE IF agentId = DEFAULT_AGENT_ID THEN "reserved"
       ELSE IF getRecipe(recipeId) = NoRecipe THEN "unknown recipe"
       ELSE IF findAgentEntryIndex(listAgentEntries(stored), agentId) >= 0
            THEN "already exists"
       ELSE "ok"

\* Mutant: the uniqueness check looks the bot name up, not the agent id.
SimpleVerdict_RawName(p, stored) ==
    LET botName == sanitizeLine(p.botName)
        recipeId == Trim(p.recipeId)
        agentId == normalizeAgentId(botName)
    IN IF ~validateOnboardSimpleParams(p) THEN "invalid params"
       ELSE IF getRecipe(recipeId) = NoRecipe THEN "unknown recipe"
       ELSE IF agentId = DEFAULT_AGENT_ID THEN "reserved"
       ELSE IF findAgentEntryIndex(listAgentEntries(stored), botName) >= 0
            THEN "already exists"
       ELSE "ok"

\* The checks of the handler in their order; "ok" when all pass.  The
\* configuration is read only when the first three have passed.
SimpleVerdict(p, stored) ==
    LET botName == sanitizeLine(p.botName)
        recipeId == Trim(p.recipeId)
        agentId == normalizeAgentId(botName)
    IN IF ~validateOnboardSimpleParams(p) THEN "invalid params"
       ELSE IF getRecipe(recipeId) = NoRecipe THEN "unknown recipe"
       ELSE IF agentId = DEFAULT_AGENT_ID THEN "reserved"
       ELSE IF findAgentEntryIndex(listAgentEntries(stored), agentId) >= 0
            THEN "already exists"
       ELSE "ok"

\* Whether the handler got as far as loadConfig().
LoadsConfig(verdict) == verdict \in {"already exists", "ok"}

\* Mutant: the agentDir is pushed as a new entry instead of being merged
\* into the agent's entry.
BuildNextConfig_Push(cfg, agentId, botName, workspaceDir, entityId) ==
    LET c1 == applyAgentConfig(cfg,
                 [agentId |-> agentId, name |-> botName,
                  workspace |-> workspaceDir, agentDir |-> NoPath])
        agentDir == resolveAgentDir(c1, agentId)
        c2 == [c1 EXCEPT !.agents = Append(@,
                 [id |-> agentId, name |-> <<>>, workspace |-> NoPath,
                  agentDir |-> agentDir])]
        c3 == applyMinimaxApiConfig(c2)
    IN IF entityId # <<>> THEN [c3 EXCEPT !.composioEnabled = "true"] ELSE c3

\* Mutant: without an entity id the integration flag is written as false.
BuildNextConfig_ExplicitFalse(cfg, agentId, botName, workspaceDir, entityId) ==
    LET c1 == applyAgentConfig(cfg,
                 [agentId |-> agentId, name |-> botName,
                  workspace |-> workspaceDir, agentDir |-> NoPath])
        agentDir == resolveAgentDir(c1, agentId)
        c2 == applyAgentConfig(c1,
                 [agentId |-> agentId, name |-> <<>>, workspace |-> NoPath,
                  agentDir |-> agentDir])
        c3 == applyMinimaxApiConfig(c2)
    IN [c3 EXCEPT !.composioEnabled = IF entityId # <<>> THEN "true" ELSE "false"]

\* The configuration the handler builds from the loaded one: the agent entry
\* (name, workspace), then its agentDir, then the model, then the
\* integration flag when an entity id was given.
BuildNextConfig(cfg, agentId, botName, workspaceDir, entityId) ==
    LET c1 == applyAgentConfig(cfg,
                 [agentId |-> agentId, name |-> botName,
                  workspace |-> workspaceDir, agentDir |-> NoPath])
        agentDir == resolveAgentDir(c1, agentId)
        c2 == applyAgentConfig(c1,
                 [agentId |-> agentId, name |-> <<>>, workspace |-> NoPath,
                  agentDir |-> agentDir])
        c3 == applyMinimaxApiConfig(c2)
    IN IF entityId # <<>> THEN [c3 EXCEPT !.composioEnabled = "true"] ELSE c3

\* Mutant: a failed check responds but does not return.
EntryStep_NoReturn(verdict) == "ensureWorkspace"

\* Where the handler goes after its checks: to the first filesystem
\* operation, or it returns after responding with the failure.
EntryStep(verdict) ==
    IF verdict = "ok" THEN "ensureWorkspace" ELSE "returned"

\* Mutant: the configuration is written before the transcripts directory
\* is made.
StepAfter_ConfigEarly(step, recipe) ==
    CASE step = "ensureWorkspace" -> "writeConfig"
      [] step = "writeConfig" -> "mkdirTranscripts"
      [] step = "mkdirTranscripts" -> "writeIdentity"
      [] step = "writeIdentity" -> "writeUser"
      [] step = "writeUser" -> "writeSoul"
      [] step = "writeSoul" -> "writeAgents"
      [] step = "writeAgents" ->
            IF recipe.tools # "" THEN "writeTools" ELSE "respond"
      [] step = "writeTools" -> "respond"
      [] OTHER -> "respond"

\* Mutant: the persona file is written before the user file.
StepAfter_SoulFirst(step, recipe) ==
    CASE step = "ensureWorkspace" -> "mkdirTranscripts"
      [] step = "mkdirTranscripts" -> "writeConfig"
      [] step = "writeConfig" -> "writeIdentity"
      [] step = "writeIdentity" -> "writeSoul"
      [] step = "writeSoul" -> "writeUser"
      [] step = "writeUser" -> "writeAgents"
      [] step = "writeAgents" ->
            IF recipe.tools # "" THEN "writeTools" ELSE "respond"
      [] step = "writeTools" -> "respond"
      [] OTHER -> "respond"

\* The handler's sequence of awaited operations; "respond" after the last.
StepAfter(step, recipe) ==
    CASE step = "ensureWorkspace" -> "mkdirTranscripts"
      [] step = "mkdirTranscripts" -> "writeConfig"
      [] step = "writeConfig" -> "writeIdentity"
      [] step = "writeIdentity" -> "writeUser"
      [] step = "writeUser" -> "writeSoul"
      [] step = "writeSoul" -> "writeAgents"
      [] step = "writeAgents" ->
            IF recipe.tools # "" THEN "writeTools" ELSE "respond"
      [] step = "writeTools" -> "respond"
      [] OTHER -> "respond"

FileSteps ==
    {"writeIdentity", "writeUser", "writeSoul", "writeAgents", "writeTools"}

\* The awaited operations up to and including the configuration write.
PrePersistSteps == {"ensureWorkspace", "mkdirTranscripts", "writeConfig"}

AwaitSteps == PrePersistSteps \cup FileSteps

\* The file a step writes: its name and its content.
FileOf(step, k) ==
    CASE step = "writeIdentity" ->
            [name |-> "IDENTITY.md",
             content |-> [text |-> k.recipe.emoji, who |-> k.botName]]
      [] step = "writeUser" ->
            [name |-> "USER.md",
             content |-> [text |-> "user", who |-> k.userName]]
      [] step = "writeSoul" ->
            [name |-> "SOUL.md",
             content |-> [text |-> k.recipe.soul, who |-> <<>>]]
      [] step = "writeAgents" ->
            [name |-> "AGENTS.md",
             content |-> [text |-> k.recipe.agents, who |-> <<>>]]
      [] OTHER ->
            [name |-> "TOOLS.md",
             content |-> [text |-> k.recipe.tools, who |-> <<>>]]

\* fs.writeFile: the file holds exactly the new content afterwards.
WriteFileTo(fs, dir, f) ==
    {x \in fs : ~(x.dir = dir /\ x.name = f.name)}
        \cup {[dir |-> dir, name |-> f.name, content |-> f.content]}

IdleCall ==
    [pc |-> "idle", verdict |-> "", loaded |-> FALSE, botName |-> <<>>,
     userName |-> <<>>, recipe |-> NoRecipe, recipeId |-> <<>>,
     entityId |-> <<>>, agentId |-> <<>>, workspaceDir |-> NoPath,
     cfg |-> [agents |-> <<>>, workspaceRoot |-> "", model |-> "",
              composioEnabled |-> "unset"],
     nextConfig |-> [agents |-> <<>>, workspaceRoot |-> "", model |-> "",
                     composioEnabled |-> "unset"],
     resps |-> <<>>, failedAt |-> "", overlap |-> {}]

\* The request parameters the model draws from.
BotNames ==
    { <<"H", "i">>,
      <<" ", "H", "i", "\t">>,
      <<"A", " ", " ", "b">>,
      <<"A", " ", "b">>,
      <<"M", "a", "i", "n">>,
      <<>> }

UserNames == { <<"A", "d", "a">> }

RecipeIdInputs ==
    { <<" ", "daily-assistant">>, <<"does-not-exist">> }

EntityInputs ==
    { [present |-> FALSE, value |-> <<>>],
      [present |-> TRUE, value |-> <<" ">>],
      [present |-> TRUE, value |-> <<"u", "1">>] }

SimpleParams ==
    [userName : UserNames, botName : BotNames, recipeId : RecipeIdInputs,
     entityId : EntityInputs]

\* The parameters drawn for requests that interleave: no entity id (absent
\* or blank).
RaceParams == {p \in SimpleParams : EntityIdOf(p) = <<>>}

\* The handler up to its first await: validation, the checks, the new
\* configuration; it responds with the failure or issues the first mkdir.
Begin(c, p) ==
    LET botName == sanitizeLine(p.botName)
        userName == sanitizeLine(p.userName)
        recipeId == Trim(p.recipeId)
        entityId == EntityIdOf(p)
        recipe == getRecipe(recipeId)
        agentId == normalizeAgentId(botName)
        verdict == SimpleVerdict(p, persisted)
        cfg == persisted
        workspaceDir == WorkspaceDirOf(cfg, agentId)
        nextConfig == BuildNextConfig(cfg, agentId, botName, workspaceDir, entityId)
    IN /\ call[c].pc = "idle"
       /\ \A d \in Calls : d < c => call[d].pc # "idle"
       /\ call' = [call EXCEPT ![c] =
            [pc |-> EntryStep(verdict), verdict |-> verdict,
             loaded |-> LoadsConfig(verdict), botName |-> botName,
             userName |-> userName, recipe |-> recipe, recipeId |-> recipeId,
             entityId |-> entityId, agentId |-> agentId,
             workspaceDir |-> workspaceDir, cfg |-> cfg,
             nextConfig |-> nextConfig,
             resps |-> IF verdict = "ok" THEN <<>>
                       ELSE <<errorShape(ErrorCodes.INVALID_REQUEST, verdict)>>,
             failedAt |-> "",
             overlap |-> {d \in Calls : /\ call[d].agentId = agentId
                                        /\ call[d].pc \in PrePersistSteps}]]
       /\ UNCHANGED <<persisted, dirs, files, provisioned, toolVars, clientVars>>

\* The call record after the awaited operation of its step completed: the
\* next operation is issued, or the handler responds ok:true and is done.
Advance(k) ==
    LET next == StepAfter(k.pc, k.recipe)
    IN IF next = "respond"
       THEN [k EXCEPT !.pc = "done",
                      !.resps = Append(@, SimpleOk(k.agentId, k.workspaceDir,
                                                   k.recipe.id))]
       ELSE [k EXCEPT !.pc = next]

\* ensureAgentWorkspace({dir, ensureBootstrapFiles: false}) completes.
EnsureWorkspace(c) ==
    /\ call[c].pc = "ensureWorkspace"
    /\ dirs' = dirs \cup {call[c].workspaceDir}
    /\ call' = [call EXCEPT ![c] = Advance(call[c])]
    /\ UNCHANGED <<persisted, files, provisioned, toolVars, clientVars>>

\* fs.mkdir(transcripts dir, {recursive: true}) completes.
MkdirTranscripts(c) ==
    /\ call[c].pc = "mkdirTranscripts"
    /\ dirs' = dirs \cup {resolveSessionTranscriptsDirForAgent(call[c].agentId)}
    /\ call' = [call EXCEPT ![c] = Advance(call[c])]
    /\ UNCHANGED <<persisted, files, provisioned, toolVars, clientVars>>

\* writeConfigFile(nextConfig) completes: the stored document is replaced.
WriteConfig(c) ==
    /\ call[c].pc = "writeConfig"
    /\ persisted' = call[c].nextConfig
    /\ provisioned' = provisioned \cup {call[c].agentId}
    /\ call' = [call EXCEPT ![c] = Advance(call[c])]
    /\ UNCHANGED <<dirs, files, toolVars, clientVars>>

\* One fs.writeFile of a workspace file completes.
WriteWorkspaceFile(c) ==
    /\ call[c].pc \in FileSteps
    /\ files' = WriteFileTo(files, call[c].workspaceDir, FileOf(call[c].pc, call[c]))
    /\ call' = [call EXCEPT ![c] = Advance(call[c])]
    /\ UNCHANGED <<persisted, dirs, provisioned, toolVars, clientVars>>

\* The awaited operation throws (or the process stops there): the handler
\* has no try/catch, so it ends without responding and undoes nothing.
FsFail(c) ==
    /\ call[c].pc \in AwaitSteps
    /\ call' = [call EXCEPT ![c] = [@ EXCEPT !.pc = "failed", !.failedAt = call[c].pc]]
    /\ UNCHANGED <<persisted, dirs, files, provisioned, toolVars, clientVars>>

\* The stored configuration before the first request.
EmptyConfig ==
    [agents |-> <<>>, workspaceRoot |-> "", model |-> "",
     composioEnabled |-> "unset"]

ExistingAgent ==
    [id |-> <<"a", "-", "b">>, name |-> <<"A", " ", "b">>,
     workspace |-> [root |-> "~/.openclaw/workspace", id |-> <<"a", "-", "b">>],
     agentDir |-> [root |-> "agents", id |-> <<"a", "-", "b">>]]

InitialConfigs ==
    { EmptyConfig,
      [EmptyConfig EXCEPT !.agents = <<ExistingAgent>>,
                          !.composioEnabled = "false"] }

SimpleInit ==
    /\ persisted \in InitialConfigs
    /\ dirs = {}
    /\ files = {}
    /\ call = [c \in Calls |-> IdleCall]
    /\ provisioned = {}

(* ------------------------------------------------------------------ *)
(* The broker client cache                                            *)
(* ------------------------------------------------------------------ *)

\* An optional or nullable value: <<>> is null/undefined, <<v>> is v.
Null == <<>>

Some(v) == <<v>>

\* v?.trim() read as a truth value: the trimmed text, empty when v is
\* undefined.
TrimOpt(v) == IF v = Null THEN <<>> ELSE Trim(v[1])

\* Mutant: the key is taken untrimmed.
resolveApiKey_NoTrim(config) ==
    IF config.apiKey # Null /\ config.apiKey[1] # <<>> THEN config.apiKey
    ELSE IF env.COMPOSIO_API_KEY # Null /\ env.COMPOSIO_API_KEY[1] # <<>>
         THEN env.COMPOSIO_API_KEY
         ELSE Null

\* config?.apiKey?.trim() || process.env.COMPOSIO_API_KEY?.trim() || undefined
resolveApiKey(config) ==
    IF TrimOpt(config.apiKey) # <<>> THEN Some(TrimOpt(config.apiKey))
    ELSE IF TrimOpt(env.COMPOSIO_API_KEY) # <<>>
         THEN Some(TrimOpt(env.COMPOSIO_API_KEY))
         ELSE Null

\* config?.baseUrl?.trim() || process.env.COMPOSIO_BASE_URL?.trim() || undefined
resolveBaseUrl(config) ==
    IF TrimOpt(config.baseUrl) # <<>> THEN Some(TrimOpt(config.baseUrl))
    ELSE IF TrimOpt(env.COMPOSIO_BASE_URL) # <<>>
         THEN Some(TrimOpt(env.COMPOSIO_BASE_URL))
         ELSE Null

\* The cache as it stands, with the client a call returns.
CacheWith(client) ==
    [client |-> client, cachedClient |-> cachedClient,
     cachedApiKey |-> cachedApiKey, cachedBaseUrl |-> cachedBaseUrl,
     clients |-> clients]

\* Mutant: the cached client is reused whenever the key matches.
getComposioClient_KeyOnly(config) ==
    LET apiKey == resolveApiKey(config)
        baseUrl == resolveBaseUrl(config)
        id == Len(clients) + 1
    IN IF apiKey = Null THEN CacheWith(Null)
       ELSE IF cachedClient # Null /\ cachedApiKey = apiKey
            THEN CacheWith(cachedClient)
            ELSE [client |-> Some(id), cachedClient |-> Some(id),
                  cachedApiKey |-> apiKey, cachedBaseUrl |-> baseUrl,
                  clients |-> Append(clients, [apiKey |-> apiKey[1],
                                               baseUrl |-> baseUrl])]

\* Mutant: a new client replaces the cached one, but the cached base URL
\* is left as it was.
getComposioClient_StaleUrl(config) ==
    LET apiKey == resolveApiKey(config)
        baseUrl == resolveBaseUrl(config)
        id == Len(clients) + 1
    IN IF apiKey = Null THEN CacheWith(Null)
       ELSE IF cachedClient # Null /\ cachedApiKey = apiKey
                                   /\ cachedBaseUrl = baseUrl
            THEN CacheWith(cachedClient)
            ELSE [client |-> Some(id), cachedClient |-> Some(id),
                  cachedApiKey |-> apiKey, cachedBaseUrl |-> cachedBaseUrl,
                  clients |-> Append(clients, [apiKey |-> apiKey[1],
                                               baseUrl |-> baseUrl])]

\* getComposioClient: the client it returns (null without a key) and the
\* cache and the constructed clients it leaves.  A client's identity is
\* its position among the constructed clients.
getComposioClient(config) ==
    LET apiKey == resolveApiKey(config)
        baseUrl == resolveBaseUrl(config)
        id == Len(clients) + 1
    IN IF apiKey = Null THEN CacheWith(Null)
       ELSE IF cachedClient # Null /\ cachedApiKey = apiKey
                                   /\ cachedBaseUrl = baseUrl
            THEN CacheWith(cachedClient)
            ELSE [client |-> Some(id), cachedClient |-> Some(id),
                  cachedApiKey |-> apiKey, cachedBaseUrl |-> baseUrl,
                  clients |-> Append(clients, [apiKey |-> apiKey[1],
                                               baseUrl |-> baseUrl])]

\* Mutant: the reset forgets the key and the URL but keeps the client.
clearComposioClient_KeepClient ==
    [cachedClient |-> cachedClient, cachedApiKey |-> Null,
     cachedBaseUrl |-> Null]

\* clearComposioClient: the cache it leaves.
clearComposioClient ==
    [cachedClient |-> Null, cachedApiKey |-> Null, cachedBaseUrl |-> Null]

\* The cache contents, with the number of clients constructed so far.
CacheNow ==
    [cachedClient |-> cachedClient, cachedApiKey |-> cachedApiKey,
     cachedBaseUrl |-> cachedBaseUrl, made |-> Len(clients)]

\* getComposioClient called with no argument, as the gateway handlers do.
NoComposioConfig == [apiKey |-> Null, baseUrl |-> Null]

NoGet ==
    [op |-> "none", n |-> 0, prev |-> "none", config |-> NoComposioConfig,
     result |-> Null, before |-> [cachedClient |-> Null, cachedApiKey |-> Null,
                                  cachedBaseUrl |-> Null, made |-> 0],
     dropped |-> [cachedClient |-> Null, cachedApiKey |-> Null,
                  cachedBaseUrl |-> Null, made |-> 0]]

\* A call of getComposioClient(config) from any caller: the cache is
\* updated and the call is recorded.
CallGetComposioClient(config) ==
    LET got == getComposioClient(config)
    IN /\ cachedClient' = got.cachedClient
       /\ cachedApiKey' = got.cachedApiKey
       /\ cachedBaseUrl' = got.cachedBaseUrl
       /\ clients' = got.clients
       /\ lastGet' = [lastGet EXCEPT
                        !.op = "get", !.n = @ + 1, !.prev = lastGet.op,
                        !.config = [apiKey |-> config.apiKey,
                                    baseUrl |-> config.baseUrl],
                        !.result = got.client, !.before = CacheNow]
       /\ UNCHANGED env

\* The configurations and environments the model draws from.
ApiKeys == { <<" ">>, <<"k">>, <<" ", "k">> }

BaseUrls == { <<"u">> }

ComposioConfigs ==
    [apiKey : {Null} \cup {Some(k) : k \in ApiKeys},
     baseUrl : {Null} \cup {Some(u) : u \in BaseUrls}]

Environments ==
    [COMPOSIO_API_KEY : {Null, Some(<<" ">>), Some(<<"e">>)},
     COMPOSIO_BASE_URL : {Null, Some(<<"v">>)}]

NoEnvironment == [COMPOSIO_API_KEY |-> Null, COMPOSIO_BASE_URL |-> Null]

\* No client was ever asked for.
CacheIdle ==
    /\ cachedClient = Null
    /\ cachedApiKey = Null
    /\ cachedBaseUrl = Null
    /\ clients = <<>>
    /\ lastGet = NoGet

\* Some caller asks for the client.
GetComposioClient(config) ==
    /\ lastGet.n < MaxGets
    /\ CallGetComposioClient(config)
    /\ UNCHANGED <<simpleVars, toolVars>>

\* Some caller resets the cache.
ClearComposioClient ==
    /\ lastGet.n < MaxGets
    /\ cachedClient' = clearComposioClient.cachedClient
    /\ cachedApiKey' = clearComposioClient.cachedApiKey
    /\ cachedBaseUrl' = clearComposioClient.cachedBaseUrl
    /\ lastGet' = [lastGet EXCEPT !.op = "clear", !.n = @ + 1,
                                  !.prev = lastGet.op, !.result = Null,
                                  !.before = CacheNow, !.dropped = CacheNow]
    /\ UNCHANGED <<clients, env, simpleVars, toolVars>>

(* ------------------------------------------------------------------ *)
(* The composio tool: connect_multiple                                *)
(* ------------------------------------------------------------------ *)

\* config?.maxAccountsPerUser ?? 20
DefaultMaxAccounts == 20

MaxAccountsOf(config) ==
    IF config.maxAccountsPerUser # Null THEN config.maxAccountsPerUser[1]
    ELSE DefaultMaxAccounts

\* Mutant: the resolver is asked before the request's entityId is read.
ResolveEntityId_ResolverFirst(param, resolver) ==
    IF resolver # Null THEN resolver[1]
    ELSE IF param # Null THEN param[1]
    ELSE <<"default">>

\* readStringParam(params, "entityId") ?? opts?.resolveEntityId?.() ?? "default"
ResolveEntityId(param, resolver) ==
    IF param # Null THEN param[1]
    ELSE IF resolver # Null THEN resolver[1]
    ELSE <<"default">>

\* readStringArrayParam(params, "appNames") ?? (appName ? [appName] : undefined)
AppNamesOf(args) ==
    IF args.appNames # Null THEN args.appNames
    ELSE IF args.appName # Null /\ args.appName[1] # <<>>
         THEN Some(<<args.appName[1]>>)
         ELSE Null

\* Mutant: an empty list passes the size checks.
BatchCheck_AllowEmpty(appNames, maxAccounts) ==
    IF appNames = Null
    THEN "appNames required for connect_multiple"
    ELSE IF Len(appNames[1]) > maxAccounts
         THEN "Cannot connect more than maxAccounts services at once"
         ELSE ""

\* Mutant: a batch of exactly the ceiling is refused.
BatchCheck_OffByOne(appNames, maxAccounts) ==
    IF appNames = Null \/ Len(appNames[1]) = 0
    THEN "appNames required for connect_multiple"
    ELSE IF Len(appNames[1]) >= maxAccounts
         THEN "Cannot connect more than maxAccounts services at once"
         ELSE ""

\* What the size checks of connect_multiple throw; "" when they pass.
BatchCheck(appNames, maxAccounts) ==
    IF appNames = Null \/ Len(appNames[1]) = 0
    THEN "appNames required for connect_multiple"
    ELSE IF Len(appNames[1]) > maxAccounts
         THEN "Cannot connect more than maxAccounts services at once"
         ELSE ""

\* The request initiateConnection submits to the broker.
InitiateRequest(entityId, appName, redirectUri) ==
    [entityId |-> entityId, appName |-> toUpperCase(appName),
     redirectUri |-> redirectUri]

\* Mutant: an omitted redirectUrl is replaced by a placeholder address.
InitiateResult_Placeholder(reply) ==
    [connectedAccountId |-> reply.connectedAccountId,
     redirectUrl |-> IF reply.redirectUrl # Null THEN reply.redirectUrl[1]
                     ELSE <<"about:blank">>]

\* What initiateConnection returns for the broker's answer.
InitiateResult(reply) ==
    [connectedAccountId |-> reply.connectedAccountId,
     redirectUrl |-> IF reply.redirectUrl # Null THEN reply.redirectUrl[1]
                     ELSE <<>>]

\* Mutant: the catch branch reports no error.
ItemOutcome_NoError(name, reply) ==
    IF reply.ok
    THEN [appName |-> toUpperCase(name),
          connectedAccountId |-> Some(InitiateResult(reply).connectedAccountId),
          redirectUrl |-> Some(InitiateResult(reply).redirectUrl),
          authUrl |-> Some(InitiateResult(reply).redirectUrl),
          error |-> Null]
    ELSE [appName |-> toUpperCase(name), connectedAccountId |-> Null,
          redirectUrl |-> Null, authUrl |-> Null, error |-> Null]

\* One item of the batch: the success shape, or in the catch branch the
\* failure shape with String(err).
ItemOutcome(name, reply) ==
    IF reply.ok
    THEN [appName |-> toUpperCase(name),
          connectedAccountId |-> Some(InitiateResult(reply).connectedAccountId),
          redirectUrl |-> Some(InitiateResult(reply).redirectUrl),
          authUrl |-> Some(InitiateResult(reply).redirectUrl),
          error |-> Null]
    ELSE [appName |-> toUpperCase(name), connectedAccountId |-> Null,
          redirectUrl |-> Null, authUrl |-> Null,
          error |-> Some(<<"Error: ", reply.message>>)]

\* Mutant: the outcomes are collected as they complete.
CollectResults_ByCompletion(items, order) ==
    [i \in 1..Len(items) |-> items[order[i]].value]

\* Promise.all over the mapped items: the outcomes by input index.
CollectResults(items, order) ==
    [i \in 1..Len(items) |-> items[i].value]

\* Mutant: execute goes on without a client.
ToolFailure_NoClientCheck(client, check) == check

\* What execute throws before its switch when there is no client; else
\* what the operation's own checks throw.
ToolFailure(client, check) ==
    IF client = Null THEN "Composio is not configured" ELSE check

\* A request to the broker other than an item of a batch, and its answer.
NoRequest ==
    [kind |-> "none", entityId |-> <<>>, appName |-> <<>>,
     connectedAccountId |-> Null, redirectUri |-> Null, actionName |-> <<>>]

NoRawAccount == [id |-> Null, status |-> Null]

NoAnswer ==
    [settled |-> FALSE, ok |-> FALSE, account |-> NoRawAccount,
     connectedAccountId |-> 0, redirectUrl |-> Null, connections |-> <<>>,
     data |-> Null, message |-> ""]

NoReply ==
    [ok |-> FALSE, connectedAccountId |-> 0, redirectUrl |-> Null,
     message |-> ""]

NoOutcome ==
    [appName |-> <<>>, connectedAccountId |-> Null, redirectUrl |-> Null,
     authUrl |-> Null, error |-> Null]

IdleTool ==
    [phase |-> "idle", action |-> "", entityId |-> <<>>, appNames |-> <<>>,
     items |-> <<>>, order |-> <<>>, output |-> <<>>, error |-> "",
     client |-> Null, issued |-> 0, request |-> NoRequest,
     answer |-> NoAnswer, entityParam |-> Null]

\* Mutant: the mapping stops after the first name.
MapItems_FirstOnly(entityId, names, redirectUri) ==
    [i \in 1..1 |->
        [settled |-> FALSE,
         request |-> InitiateRequest(entityId, names[i], redirectUri),
         reply |-> NoReply,
         value |-> NoOutcome]]

\* appNames.map(async (name) => ...): one pending initiate call per name,
\* each started before any of them completes.
MapItems(entityId, names, redirectUri) ==
    [i \in 1..Len(names) |->
        [settled |-> FALSE,
         request |-> InitiateRequest(entityId, names[i], redirectUri),
         reply |-> NoReply,
         value |-> NoOutcome]]

\* An account the broker has just created for an initiate request.
NewAccount == [status |-> Some("INITIATED"), live |-> TRUE]

\* No onboard.auth request was made.
IdleRpc ==
    [phase |-> "idle", method |-> "", valid |-> FALSE, request |-> NoRequest,
     answer |-> NoAnswer, resps |-> <<>>, client |-> Null, issued |-> 0]

\* The app names, entity ids and redirect URIs the model draws from.
AppNames == { <<"g", "m">>, <<"S", "n">> }

NameLists(n) == UNION {[1..k -> AppNames] : k \in 0..n}

\* A list one longer than the default ceiling.
OverDefault == [i \in 1..(DefaultMaxAccounts + 1) |-> <<"g", "m">>]

ToolArgs ==
    [entityId : {Null, Some(<<"u", "1">>)},
     appNames : {Null, Some(OverDefault)}
                \cup {Some(l) : l \in NameLists(MaxBatch)},
     appName : {Null, Some(<<"g", "m">>)},
     redirectUri : {Null, Some(<<"app://cb">>)}]

ToolOptions ==
    [apiKey : {Null, Some(<<"k">>)},
     baseUrl : {Null},
     maxAccountsPerUser : {Null, Some(1)},
     resolveEntityId : {Null, Some(<<"session">>)}]

ToolIdle ==
    /\ tool = IdleTool
    /\ toolCalls = 0
    /\ brokerAccounts = 0
    /\ brokerCalls = 0
    /\ brokerRecords = <<>>

\* execute with action connect_multiple, up to the awaits of the mapped
\* items: the client, the entity id, the size checks, then one initiate
\* request per name, all issued before any completes.
ConnectMultiple(args) ==
    LET client == getComposioClient(toolOpts).client
        entityId == ResolveEntityId(args.entityId, toolOpts.resolveEntityId)
        appNames == AppNamesOf(args)
        failure == ToolFailure(client,
                               BatchCheck(appNames, MaxAccountsOf(toolOpts)))
        names == IF appNames = Null THEN <<>> ELSE appNames[1]
        items == MapItems(entityId, names, args.redirectUri)
    IN /\ tool.phase \in {"idle", "returned", "threw"}
       /\ rpc.phase # "awaiting"
       /\ toolCalls < MaxToolCalls
       /\ toolCalls' = toolCalls + 1
       /\ CallGetComposioClient(toolOpts)
       /\ IF failure # ""
          THEN /\ tool' = [IdleTool EXCEPT !.phase = "threw",
                                          !.action = "connect_multiple",
                                          !.client = client,
                                          !.entityId = entityId,
                                          !.entityParam = args.entityId,
                                          !.appNames = names,
                                          !.error = failure]
               /\ UNCHANGED brokerCalls
          ELSE /\ tool' = [IdleTool EXCEPT
                             !.phase = "awaiting",
                             !.action = "connect_multiple",
                             !.client = client,
                             !.entityId = entityId,
                             !.entityParam = args.entityId,
                             !.appNames = names,
                             !.items = items,
                             !.issued = Len(items)]
               /\ brokerCalls' = brokerCalls + Len(items)
       /\ UNCHANGED <<toolOpts, brokerAccounts, brokerRecords, rpc, simpleVars>>

\* The broker answers item i's initiate request: a new connected account,
\* with or without a redirect URL.
InitiateResolves(i, withUrl) ==
    LET id == brokerAccounts + 1
        reply == [ok |-> TRUE, connectedAccountId |-> id,
                  redirectUrl |-> IF withUrl THEN Some(<<"https://auth/", id>>)
                                  ELSE Null,
                  message |-> ""]
    IN /\ tool.phase = "awaiting"
       /\ i \in 1..Len(tool.items)
       /\ ~tool.items[i].settled
       /\ brokerAccounts' = id
       /\ brokerRecords' = Append(brokerRecords, NewAccount)
       /\ tool' = [tool EXCEPT
                     !.items[i] = [@ EXCEPT !.settled = TRUE, !.reply = reply,
                                            !.value = ItemOutcome(tool.appNames[i], reply)],
                     !.order = Append(@, i)]
       /\ UNCHANGED <<toolOpts, toolCalls, brokerCalls, rpc, simpleVars, clientVars>>

\* The broker's initiate call for item i throws.
InitiateRejects(i) ==
    LET reply == [NoReply EXCEPT !.message = "upstream failure"]
    IN /\ tool.phase = "awaiting"
       /\ i \in 1..Len(tool.items)
       /\ ~tool.items[i].settled
       /\ tool' = [tool EXCEPT
                     !.items[i] = [@ EXCEPT !.settled = TRUE, !.reply = reply,
                                            !.value = ItemOutcome(tool.appNames[i], reply)],
                     !.order = Append(@, i)]
       /\ UNCHANGED <<toolOpts, toolCalls, brokerAccounts, brokerCalls,
                      brokerRecords, rpc, simpleVars, clientVars>>

\* Every item has settled: Promise.all resolves and the tool returns the
\* connections list.
BatchReturns ==
    /\ tool.action = "connect_multiple"
    /\ tool.phase = "awaiting"
    /\ \A i \in 1..Len(tool.items) : tool.items[i].settled
    /\ tool' = [tool EXCEPT !.phase = "returned",
                            !.output = CollectResults(tool.items, tool.order)]
    /\ UNCHANGED <<toolOpts, toolCalls, brokerAccounts, brokerCalls,
                   brokerRecords, rpc, simpleVars, clientVars>>

(* ------------------------------------------------------------------ *)
(* The composio tool: the operations that make one broker call        *)
(* ------------------------------------------------------------------ *)

\* toStr(value, fallback): a string is kept, an absent value gives the
\* fallback.
toStr(value, fallback) == IF value # Null THEN value[1] ELSE fallback

\* getConnectionStatus: the account built from the broker's raw record.
getConnectionStatus(raw, connectedAccountId) ==
    [id |-> toStr(raw.id, connectedAccountId),
     status |-> toStr(raw.status, "INITIATED")]

\* Mutant: the accounts come out in reverse order.
listConnectedAccounts_Reversed(connections) ==
    [i \in 1..Len(connections) |->
        [id |-> toStr(connections[Len(connections) + 1 - i].id, 0),
         status |-> toStr(connections[Len(connections) + 1 - i].status, "ACTIVE")]]

\* listConnectedAccounts: one account per raw record, in the broker's
\* order.
listConnectedAccounts(connections) ==
    [i \in 1..Len(connections) |->
        [id |-> toStr(connections[i].id, 0),
         status |-> toStr(connections[i].status, "ACTIVE")]]

\* Mutant: the confirmation does not say deleted.
DisconnectResult_NotDeleted(connectedAccountId) ==
    [deleted |-> FALSE, connectedAccountId |-> connectedAccountId]

\* The confirmation record disconnect returns.
DisconnectResult(connectedAccountId) ==
    [deleted |-> TRUE, connectedAccountId |-> connectedAccountId]

\* The hint list_connections gives when nothing is connected.
NoServicesHint == "No services connected yet."

\* What a one-call operation returns for the broker's answer.
OpOutput(t, answer) ==
    CASE t.action = "list_connections" ->
            IF Len(answer.connections) = 0
            THEN [connections |-> <<>>, message |-> NoServicesHint,
                  entityId |-> Null]
            ELSE [connections |-> listConnectedAccounts(answer.connections),
                  message |-> "", entityId |-> Some(t.entityId)]
      [] t.action = "connect" ->
            [connectedAccountId |-> InitiateResult(answer).connectedAccountId,
             redirectUrl |-> InitiateResult(answer).redirectUrl,
             authUrl |-> InitiateResult(answer).redirectUrl,
             appName |-> t.appNames[1]]
      [] t.action = "status" ->
            getConnectionStatus(answer.account, t.request.connectedAccountId[1])
      [] t.action = "disconnect" ->
            DisconnectResult(t.request.connectedAccountId[1])
      [] OTHER -> [data |-> answer.data]

\* Mutant: a broker call that throws is answered with an empty success.
ToolContinue_SwallowError(t, answer) ==
    IF ~answer.ok
    THEN [t EXCEPT !.phase = "returned", !.answer = answer]
    ELSE [t EXCEPT !.phase = "returned", !.answer = answer,
                   !.output = <<OpOutput(t, answer)>>]

\* execute after its await: the broker's error is rethrown, or the result
\* is returned.
ToolContinue(t, answer) ==
    IF ~answer.ok
    THEN [t EXCEPT !.phase = "threw", !.answer = answer,
                   !.error = answer.message]
    ELSE [t EXCEPT !.phase = "returned", !.answer = answer,
                   !.output = <<OpOutput(t, answer)>>]

\* execute of a one-call operation up to its await: the client, the
\* entity id, the operation's request to the broker.
StartOp(action, args, request) ==
    LET client == getComposioClient(toolOpts).client
        entityId == ResolveEntityId(args.entityId, toolOpts.resolveEntityId)
        failure == ToolFailure(client, "")
    IN /\ tool.phase \in {"idle", "returned", "threw"}
       /\ rpc.phase # "awaiting"
       /\ toolCalls < MaxOps
       /\ toolCalls' = toolCalls + 1
       /\ CallGetComposioClient(toolOpts)
       /\ IF failure # ""
          THEN /\ tool' = [IdleTool EXCEPT !.phase = "threw",
                                          !.action = action,
                                          !.client = client,
                                          !.error = failure]
               /\ UNCHANGED brokerCalls
          ELSE /\ tool' = [IdleTool EXCEPT
                             !.phase = "awaiting",
                             !.action = action,
                             !.client = client,
                             !.entityId = entityId,
                             !.entityParam = args.entityId,
                             !.appNames = IF args.appName = Null THEN <<>>
                                          ELSE <<args.appName[1]>>,
                             !.request = [request EXCEPT !.entityId =
                                 IF request.kind \in {"get", "delete"}
                                 THEN <<>> ELSE entityId],
                             !.issued = 1]
               /\ brokerCalls' = brokerCalls + 1
       /\ UNCHANGED <<toolOpts, brokerAccounts, brokerRecords, rpc, simpleVars>>

ListConnections(args) ==
    /\ args.appName = Null
    /\ StartOp("list_connections", args,
               [NoRequest EXCEPT !.kind = "getConnections"])

Connect(args) ==
    /\ args.appName # Null
    /\ StartOp("connect", args,
               [NoRequest EXCEPT !.kind = "initiate",
                                 !.appName = toUpperCase(args.appName[1]),
                                 !.redirectUri = args.redirectUri])

Status(args) ==
    /\ args.connectedAccountId # Null
    /\ StartOp("status", args,
               [NoRequest EXCEPT !.kind = "get",
                                 !.connectedAccountId = args.connectedAccountId])

Disconnect(args) ==
    /\ args.connectedAccountId # Null
    /\ StartOp("disconnect", args,
               [NoRequest EXCEPT !.kind = "delete",
                                 !.connectedAccountId = args.connectedAccountId])

Execute(args) ==
    /\ args.actionName # Null
    /\ StartOp("execute", args,
               [NoRequest EXCEPT !.kind = "execute",
                                 !.actionName = toUpperCase(args.actionName[1]),
                                 !.connectedAccountId = args.connectedAccountId])

\* The arguments the one-call operations are invoked with.
OpArgs ==
    [entityId : {Null, Some(<<"u", "1">>)},
     appName : {Null, Some(<<"g", "m">>)},
     connectedAccountId : {Null, Some(1), Some(2)},
     redirectUri : {Null},
     actionName : {Null, Some(<<"g", "o">>)}]

ListArgs == {a \in OpArgs : a.appName = Null /\ a.connectedAccountId = Null
                                             /\ a.actionName = Null}

ConnectArgs == {a \in OpArgs : a.connectedAccountId = Null /\ a.actionName = Null}

AccountArgs == {a \in OpArgs : a.entityId = Null /\ a.appName = Null
                                                /\ a.actionName = Null}

ExecuteArgs == {a \in OpArgs : a.appName = Null /\ a.connectedAccountId # Some(2)}

(* ------------------------------------------------------------------ *)
(* onboard.auth.initiate and onboard.auth.status                      *)
(* ------------------------------------------------------------------ *)

\* The success responses of the two handlers.
AuthInitiateOk(result) ==
    [ok |-> TRUE, redirectUrl |-> result.redirectUrl,
     connectedAccountId |-> result.connectedAccountId]

AuthStatusOk(account) ==
    [ok |-> TRUE, connectedAccountId |-> account.id, status |-> account.status]

\* OnboardAuthInitiateParamsSchema: appName and entityId are non-empty
\* strings.
validateOnboardAuthInitiateParams(p) == p.appName # <<>> /\ p.entityId # <<>>

\* OnboardAuthStatusParamsSchema: connectedAccountId is a non-empty string.
validateOnboardAuthStatusParams(p) == p.connectedAccountId # Null

\* Mutant: the handler goes on without a client.
RpcEntry_NoClientCheck(valid, client) ==
    IF ~valid THEN ErrorCodes.INVALID_REQUEST
    ELSE ""

\* The code of the failure a handler responds with before its await; ""
\* when it goes on to the broker call.
RpcEntry(valid, client) ==
    IF ~valid THEN ErrorCodes.INVALID_REQUEST
    ELSE IF client = Null THEN ErrorCodes.UNAVAILABLE
    ELSE ""

\* Mutant: a broker failure is not caught; the handler ends unanswered.
RpcContinue_Uncaught(r, answer) ==
    IF ~answer.ok
    THEN [r EXCEPT !.phase = "done", !.answer = answer]
    ELSE [r EXCEPT !.phase = "done", !.answer = answer,
                   !.resps = Append(@,
                       IF r.method = "onboard.auth.initiate"
                       THEN AuthInitiateOk(InitiateResult(answer))
                       ELSE AuthStatusOk(getConnectionStatus(answer.account,
                                             r.request.connectedAccountId[1])))]

\* A handler after its await: the success response, or in the catch
\* branch the UNAVAILABLE response.
RpcContinue(r, answer) ==
    LET response ==
          IF ~answer.ok
          THEN errorShape(ErrorCodes.UNAVAILABLE,
                          "Composio call failed: " \o answer.message)
          ELSE IF r.method = "onboard.auth.initiate"
               THEN AuthInitiateOk(InitiateResult(answer))
               ELSE AuthStatusOk(getConnectionStatus(answer.account,
                                     r.request.connectedAccountId[1]))
    IN [r EXCEPT !.phase = "done", !.answer = answer,
                 !.resps = Append(@, response)]

\* A handler up to its await: validation, the client, the request.
StartRpc(method, valid, request) ==
    LET client == IF valid THEN getComposioClient(NoComposioConfig).client
                  ELSE Null
        failure == RpcEntry(valid, client)
    IN /\ rpc.phase \in {"idle", "done"}
       /\ tool.phase # "awaiting"
       /\ toolCalls < MaxOps
       /\ toolCalls' = toolCalls + 1
       /\ IF valid THEN CallGetComposioClient(NoComposioConfig)
                   ELSE UNCHANGED clientVars
       /\ IF failure # ""
          THEN /\ rpc' = [IdleRpc EXCEPT
                            !.phase = "done", !.method = method,
                            !.valid = valid, !.client = client,
                            !.resps = <<errorShape(failure,
                                          IF valid THEN "Composio is not configured."
                                          ELSE "invalid params")>>]
               /\ UNCHANGED brokerCalls
          ELSE /\ rpc' = [IdleRpc EXCEPT
                            !.phase = "awaiting", !.method = method,
                            !.valid = valid,
                            !.client = client, !.request = request,
                            !.issued = 1]
               /\ brokerCalls' = brokerCalls + 1
       /\ UNCHANGED <<toolOpts, tool, brokerAccounts, brokerRecords, simpleVars>>

AuthInitiate(p) ==
    /\ rpc.phase # "awaiting"
    /\ StartRpc("onboard.auth.initiate", validateOnboardAuthInitiateParams(p),
                [NoRequest EXCEPT !.kind = "initiate",
                                  !.entityId = Trim(p.entityId),
                                  !.appName = toUpperCase(Trim(p.appName)),
                                  !.redirectUri = p.redirectUri])

AuthStatus(p) ==
    /\ rpc.phase # "awaiting"
    /\ StartRpc("onboard.auth.status", validateOnboardAuthStatusParams(p),
                [NoRequest EXCEPT !.kind = "get",
                                  !.connectedAccountId = p.connectedAccountId])

\* The success response of onboard.recipes: the catalogue's entries in
\* order (id, label, emoji; descriptions are left out of the model).
RecipesOk ==
    [ok |-> TRUE,
     recipes |-> [i \in 1..Len(listRecipes) |->
                     [id |-> listRecipes[i].id, label |-> listRecipes[i].label,
                      emoji |-> listRecipes[i].emoji]]]

\* OnboardRecipesParamsSchema: an object without properties.
validateOnboardRecipesParams(p) == ~p.extra

\* onboard.recipes: synchronous; it validates and responds.
OnboardRecipes(p) ==
    /\ rpc.phase \in {"idle", "done"}
    /\ tool.phase # "awaiting"
    /\ toolCalls < MaxOps
    /\ toolCalls' = toolCalls + 1
    /\ rpc' = [IdleRpc EXCEPT
                 !.phase = "done", !.method = "onboard.recipes",
                 !.valid = validateOnboardRecipesParams(p),
                 !.resps = IF validateOnboardRecipesParams(p)
                           THEN <<RecipesOk>>
                           ELSE <<errorShape(ErrorCodes.INVALID_REQUEST,
                                             "invalid params")>>]
    /\ UNCHANGED <<toolOpts, tool, brokerAccounts, brokerCalls, brokerRecords,
                   simpleVars, clientVars>>

RecipesParams == [extra : BOOLEAN]

AuthInitiateParams ==
    [appName : {<<>>, <<"g", "m">>}, entityId : {<<"u", "1">>},
     redirectUri : {Null}]

AuthStatusParams == [connectedAccountId : {Null, Some(1)}]

(* ------------------------------------------------------------------ *)
(* The broker                                                         *)
(* ------------------------------------------------------------------ *)

\* The invocation, of the tool or of a handler, that a broker answer
\* belongs to.
Callers == {"tool", "rpc"}

Pending(who) == IF who = "tool" THEN tool ELSE rpc

Awaiting(who, kind) ==
    /\ Pending(who).phase = "awaiting"
    /\ Pending(who).request.kind = kind

\* The awaited call settles and the caller runs on from its await.
Settle(who, answer) ==
    IF who = "tool"
    THEN tool' = ToolContinue(tool, answer) /\ UNCHANGED rpc
    ELSE rpc' = RpcContinue(rpc, answer) /\ UNCHANGED tool

Answered == [NoAnswer EXCEPT !.settled = TRUE, !.ok = TRUE]

\* The account a get or delete request names exists at the broker.
LiveAccount(id) ==
    /\ id # Null
    /\ id[1] \in 1..Len(brokerRecords)
    /\ brokerRecords[id[1]].live

\* The ids of the accounts the broker may hold.
AccountIds == 1..(MaxOps + 1)

\* The status values a broker record may carry; Null is a record without
\* a status.
RawStatuses == {Null, Some("INITIATED"), Some("ACTIVE"), Some("EXPIRED")}

\* connectedAccounts.initiate succeeds: a new account.
BrokerInitiates(who, withUrl) ==
    LET id == brokerAccounts + 1
    IN /\ Awaiting(who, "initiate")
       /\ brokerAccounts' = id
       /\ brokerRecords' = Append(brokerRecords, NewAccount)
       /\ Settle(who, [Answered EXCEPT
                          !.connectedAccountId = id,
                          !.redirectUrl = IF withUrl
                                          THEN Some(<<"https://auth/", id>>)
                                          ELSE Null])
       /\ UNCHANGED <<toolOpts, toolCalls, brokerCalls, simpleVars, clientVars>>

\* connectedAccounts.get succeeds: the record as it is now.
BrokerGets(who) ==
    LET id == Pending(who).request.connectedAccountId
    IN /\ Awaiting(who, "get")
       /\ LiveAccount(id)
       /\ Settle(who, [Answered EXCEPT
                          !.account = [id |-> Some(id[1]),
                                       status |-> brokerRecords[id[1]].status]])
       /\ UNCHANGED <<toolOpts, toolCalls, brokerAccounts, brokerCalls,
                      brokerRecords, simpleVars, clientVars>>

\* connectedAccounts.delete succeeds: the account is gone.
BrokerDeletes ==
    LET id == tool.request.connectedAccountId
    IN /\ Awaiting("tool", "delete")
       /\ LiveAccount(id)
       /\ brokerRecords' = [brokerRecords EXCEPT ![id[1]].live = FALSE]
       /\ Settle("tool", Answered)
       /\ UNCHANGED <<toolOpts, toolCalls, brokerAccounts, brokerCalls,
                      simpleVars, clientVars>>

\* entity.getConnections succeeds: the entity's live accounts.
BrokerLists ==
    LET live == SelectSeq([i \in 1..Len(brokerRecords) |->
                              [id |-> Some(i), status |-> brokerRecords[i].status,
                               live |-> brokerRecords[i].live]],
                          LAMBDA r : r.live)
    IN /\ Awaiting("tool", "getConnections")
       /\ Settle("tool", [Answered EXCEPT
                             !.connections = [i \in 1..Len(live) |->
                                 [id |-> live[i].id, status |-> live[i].status]]])
       /\ UNCHANGED <<toolOpts, toolCalls, brokerAccounts, brokerCalls,
                      brokerRecords, simpleVars, clientVars>>

\* entity.execute succeeds, with or without a result.
BrokerExecutes(data) ==
    /\ Awaiting("tool", "execute")
    /\ Settle("tool", [Answered EXCEPT !.data = data])
    /\ UNCHANGED <<toolOpts, toolCalls, brokerAccounts, brokerCalls,
                   brokerRecords, simpleVars, clientVars>>

\* The awaited broker call throws: the account is unknown or removed, or
\* the broker is unreachable.
BrokerThrows(who) ==
    /\ Pending(who).phase = "awaiting"
    /\ Pending(who).request.kind # "none"
    /\ Settle(who, [NoAnswer EXCEPT !.settled = TRUE,
                                    !.message = "upstream failure"])
    /\ UNCHANGED <<toolOpts, toolCalls, brokerAccounts, brokerCalls,
                   brokerRecords, simpleVars, clientVars>>

\* The broker's record of a live account changes status.
BrokerUpdates(id, status) ==
    /\ LiveAccount(Some(id))
    /\ brokerRecords[id].status # status
    /\ brokerRecords' = [brokerRecords EXCEPT ![id].status = status]
    /\ UNCHANGED <<toolOpts, tool, toolCalls, brokerAccounts, brokerCalls,
                   rpc, simpleVars, clientVars>>

\* The gateway before its first onboard.simple request; the composio tool
\* is not in use.
Init ==
    /\ SimpleInit
    /\ toolOpts = [apiKey |-> Null, baseUrl |-> Null,
                   maxAccountsPerUser |-> Null, resolveEntityId |-> Null]
    /\ ToolIdle
    /\ rpc = IdleRpc
    /\ env = NoEnvironment
    /\ CacheIdle

\* A composio tool created with some options, before its first invocation;
\* no onboard.simple request is made.
InitTool ==
    /\ persisted = EmptyConfig
    /\ dirs = {}
    /\ files = {}
    /\ call = [c \in Calls |-> IdleCall]
    /\ provisioned = {}
    /\ toolOpts \in ToolOptions
    /\ ToolIdle
    /\ rpc = IdleRpc
    /\ env = NoEnvironment
    /\ CacheIdle

Next ==
    \E c \in Calls :
        \/ \E p \in RaceParams : Begin(c, p)
        \/ EnsureWorkspace(c)
        \/ MkdirTranscripts(c)
        \/ WriteConfig(c)
        \/ WriteWorkspaceFile(c)
        \/ FsFail(c)

\* Requests whose steps interleave at their suspension points.
Spec == Init /\ [][Next]_vars

NextTool ==
    \/ \E args \in ToolArgs : ConnectMultiple(args)
    \/ \E i \in 1..(MaxBatch + 1), withUrl \in BOOLEAN : InitiateResolves(i, withUrl)
    \/ \E i \in 1..(MaxBatch + 1) : InitiateRejects(i)
    \/ BatchReturns

\* Invocations of the composio tool against the broker.
SpecTool == InitTool /\ [][NextTool]_vars

\* No other request is between its first await and its end.
Quiet(c) ==
    \A d \in Calls \ {c} : call[d].pc \in {"idle", "returned", "done", "failed"}

NextSeq ==
    \E c \in Calls :
        \/ \E p \in SimpleParams : Quiet(c) /\ Begin(c, p)
        \/ EnsureWorkspace(c)
        \/ MkdirTranscripts(c)
        \/ WriteConfig(c)
        \/ WriteWorkspaceFile(c)
        \/ FsFail(c)

\* Requests one after another: each starts after the previous one ended.
SpecSeq == Init /\ [][NextSeq]_vars

\* The process before any caller asked for the client, in some environment.
InitClient ==
    /\ persisted = EmptyConfig
    /\ dirs = {}
    /\ files = {}
    /\ call = [c \in Calls |-> IdleCall]
    /\ provisioned = {}
    /\ toolOpts = [apiKey |-> Null, baseUrl |-> Null,
                   maxAccountsPerUser |-> Null, resolveEntityId |-> Null]
    /\ ToolIdle
    /\ rpc = IdleRpc
    /\ env \in Environments
    /\ CacheIdle

NextClient ==
    \/ \E config \in ComposioConfigs : GetComposioClient(config)
    \/ ClearComposioClient

\* Callers of client.ts asking for the client and resetting the cache.
SpecClient == InitClient /\ [][NextClient]_vars

\* The options of a tool used for one-call operations.
OpsOptions ==
    [apiKey : {Null, Some(<<"k">>)}, baseUrl : {Null},
     maxAccountsPerUser : {Null}, resolveEntityId : {Null}]

\* connect_multiple given a single appName or nothing.
OpsBatchArgs == {a \in ToolArgs : a.appNames = Null /\ a.redirectUri = Null
                                                    /\ a.entityId = Null}

\* A tool and the gateway handlers, with or without a broker credential;
\* the broker holds one account initiated earlier.
InitOps ==
    /\ persisted = EmptyConfig
    /\ dirs = {}
    /\ files = {}
    /\ call = [c \in Calls |-> IdleCall]
    /\ provisioned = {}
    /\ toolOpts \in OpsOptions
    /\ tool = IdleTool
    /\ toolCalls = 0
    /\ brokerAccounts = 1
    /\ brokerCalls = 0
    /\ brokerRecords = <<NewAccount>>
    /\ rpc = IdleRpc
    /\ env \in {NoEnvironment,
                 [NoEnvironment EXCEPT !.COMPOSIO_API_KEY = Some(<<"e">>)]}
    /\ CacheIdle

NextOps ==
    \/ \E args \in ListArgs : ListConnections(args)
    \/ \E args \in ConnectArgs : Connect(args)
    \/ \E args \in OpsBatchArgs : ConnectMultiple(args)
    \/ \E args \in AccountArgs : Status(args)
    \/ \E args \in AccountArgs : Disconnect(args)
    \/ \E args \in ExecuteArgs : Execute(args)
    \/ \E p \in AuthInitiateParams : AuthInitiate(p)
    \/ \E p \in AuthStatusParams : AuthStatus(p)
    \/ \E withUrl \in BOOLEAN : InitiateResolves(1, withUrl)
    \/ InitiateRejects(1)
    \/ BatchReturns
    \/ \E who \in Callers, withUrl \in BOOLEAN : BrokerInitiates(who, withUrl)
    \/ \E who \in Callers : BrokerGets(who)
    \/ BrokerDeletes
    \/ BrokerLists
    \/ \E data \in {Null, Some("done")} : BrokerExecutes(data)
    \/ \E who \in Callers : BrokerThrows(who)
    \/ \E id \in AccountIds, status \in RawStatuses : BrokerUpdates(id, status)

\* Invocations of the tool and of the onboard.auth handlers, one after
\* another, against a broker whose records change.
SpecOps == InitOps /\ [][NextOps]_vars

\* A tool created with a small ceiling on accounts per user and no entity
\* resolver.
ConnectOptions ==
    [apiKey : {Null, Some(<<"k">>)}, baseUrl : {Null},
     maxAccountsPerUser : {Some(1), Some(2)}, resolveEntityId : {Null}]

\* connect_multiple and connect invoked without an entity id: every
\* invocation is for the entity "default".
ConnectBatchArgs == {a \in ToolArgs : a.entityId = Null}

ConnectOneArgs == {a \in ConnectArgs : a.entityId = Null}

InitConnect ==
    /\ persisted = EmptyConfig
    /\ dirs = {}
    /\ files = {}
    /\ call = [c \in Calls |-> IdleCall]
    /\ provisioned = {}
    /\ toolOpts \in ConnectOptions
    /\ ToolIdle
    /\ rpc = IdleRpc
    /\ env = NoEnvironment
    /\ CacheIdle

NextConnect ==
    \/ \E args \in ConnectOneArgs : Connect(args)
    \/ \E args \in ConnectBatchArgs : ConnectMultiple(args)
    \/ \E i \in 1..(MaxBatch + 1), withUrl \in BOOLEAN : InitiateResolves(i, withUrl)
    \/ \E i \in 1..(MaxBatch + 1) : InitiateRejects(i)
    \/ BatchReturns
    \/ \E withUrl \in BOOLEAN : BrokerInitiates("tool", withUrl)
    \/ BrokerThrows("tool")

\* connect and connect_multiple invocations of one tool for one entity,
\* one after another; the broker holds no account at the start.
SpecConnect == InitConnect /\ [][NextConnect]_vars

\* A tool created with a key, with or without an entity resolver.
EntityOptions ==
    [apiKey : {Some(<<"k">>)}, baseUrl : {Null},
     maxAccountsPerUser : {Null},
     resolveEntityId : {Null, Some(<<"session">>)}]

\* connect_multiple given a list of names, with or without an entity id.
EntityBatchArgs == {a \in ToolArgs : /\ a.appNames \in {Some(l) : l \in NameLists(MaxBatch)}
                                     /\ a.appName = Null
                                     /\ a.redirectUri = Null}

InitEntity ==
    /\ persisted = EmptyConfig
    /\ dirs = {}
    /\ files = {}
    /\ call = [c \in Calls |-> IdleCall]
    /\ provisioned = {}
    /\ toolOpts \in EntityOptions
    /\ ToolIdle
    /\ rpc = IdleRpc
    /\ env = NoEnvironment
    /\ CacheIdle

NextEntity ==
    \/ \E args \in ListArgs : ListConnections(args)
    \/ \E args \in ConnectArgs : Connect(args)
    \/ \E args \in EntityBatchArgs : ConnectMultiple(args)
    \/ \E i \in 1..MaxBatch, withUrl \in BOOLEAN : InitiateResolves(i, withUrl)
    \/ \E i \in 1..MaxBatch : InitiateRejects(i)
    \/ BatchReturns
    \/ \E withUrl \in BOOLEAN : BrokerInitiates("tool", withUrl)
    \/ BrokerLists
    \/ BrokerThrows("tool")

\* Invocations of one tool with and without an entity id, one after
\* another.
SpecEntity == InitEntity /\ [][NextEntity]_vars

\* The statuses of ComposioConnectedAccount and of the result schema of
\* onboard.auth.status.
AccountStatuses == {"INITIATED", "ACTIVE", "EXPIRED", "FAILED"}

\* The status a record returned by connectedAccounts.get may carry: the
\* record is read as Record<string, unknown>, so besides the four known
\* values it may carry none or another string.
GatewayStatuses == RawStatuses \cup {Some("FAILED"), Some("INACTIVE")}

\* The gateway with its four onboard handlers registered, with or without
\* a key in the environment; the broker holds one account initiated
\* earlier.
InitGateway ==
    /\ SimpleInit
    /\ toolOpts = [apiKey |-> Null, baseUrl |-> Null,
                   maxAccountsPerUser |-> Null, resolveEntityId |-> Null]
    /\ tool = IdleTool
    /\ toolCalls = 0
    /\ brokerAccounts = 1
    /\ brokerCalls = 0
    /\ \E status \in GatewayStatuses :
          brokerRecords = <<[NewAccount EXCEPT !.status = status]>>
    /\ rpc = IdleRpc
    /\ env \in {NoEnvironment,
                 [NoEnvironment EXCEPT !.COMPOSIO_API_KEY = Some(<<"e">>)]}
    /\ CacheIdle

\* No onboard.simple request is between its first await and its end.
SimpleQuiet ==
    \A c \in Calls : call[c].pc \in {"idle", "returned", "done", "failed"}

\* The handler invocations started so far are fewer than the bound.
HandlerBudget ==
    toolCalls + Cardinality({c \in Calls : call[c].pc # "idle"}) < MaxOps

\* The onboard.simple requests the gateway is sent: names that are
\* already single-spaced, no entity id.
GatewayParams ==
    {p \in SimpleParams :
        ~p.entityId.present /\ sanitizeLine(p.botName) = p.botName}

NextGateway ==
    \/ \E c \in Calls, p \in GatewayParams :
          /\ SimpleQuiet
          /\ rpc.phase # "awaiting"
          /\ HandlerBudget
          /\ Begin(c, p)
    \/ \E c \in Calls : EnsureWorkspace(c)
    \/ \E c \in Calls : MkdirTranscripts(c)
    \/ \E c \in Calls : WriteConfig(c)
    \/ \E c \in Calls : WriteWorkspaceFile(c)
    \/ \E c \in Calls : FsFail(c)
    \/ \E p \in RecipesParams : SimpleQuiet /\ HandlerBudget /\ OnboardRecipes(p)
    \/ \E p \in AuthInitiateParams : SimpleQuiet /\ HandlerBudget /\ AuthInitiate(p)
    \/ \E p \in AuthStatusParams : SimpleQuiet /\ HandlerBudget /\ AuthStatus(p)
    \/ \E withUrl \in BOOLEAN : BrokerInitiates("rpc", withUrl)
    \/ BrokerGets("rpc")
    \/ BrokerThrows("rpc")

\* Requests to the four onboard handlers, one after another.
SpecGateway == InitGateway /\ [][NextGateway]_vars

\* The operation a request awaits settles: it completes or it fails.
FsSettles(c) ==
    \/ EnsureWorkspace(c)
    \/ MkdirTranscripts(c)
    \/ WriteConfig(c)
    \/ WriteWorkspaceFile(c)
    \/ FsFail(c)

\* The broker call an onboard.auth handler awaits settles.
RpcSettles ==
    \/ \E withUrl \in BOOLEAN : BrokerInitiates("rpc", withUrl)
    \/ BrokerGets("rpc")
    \/ BrokerThrows("rpc")

\* The gateway when every awaited operation settles: a handler that has
\* started runs on until it returns or an awaited operation rejects.
SpecGatewayLive ==
    /\ InitGateway
    /\ [][NextGateway]_vars
    /\ \A c \in Calls : WF_vars(FsSettles(c))
    /\ WF_vars(RpcSettles)

(* ------------------------------------------------------------------ *)
(* Properties of onboard.simple                                       *)
(* ------------------------------------------------------------------ *)

\* The call has written the configuration (its writeConfigFile completed).
HasPersisted(c) ==
    \/ call[c].pc \in FileSteps \cup {"done"}
    \/ call[c].pc = "failed" /\ call[c].failedAt \in FileSteps

\* The call responded exactly once, with ok:true for its own agent.
RespondedOk(c) ==
    call[c].resps =
        <<SimpleOk(call[c].agentId, call[c].workspaceDir, call[c].recipe.id)>>

\* The call responded exactly once, with this INVALID_REQUEST failure.
RespondedInvalid(k, message) ==
    k.resps = <<errorShape(ErrorCodes.INVALID_REQUEST, message)>>

\* C1: in every reachable state, interleaved requests included, no agent id
\* appears in more than one entry of the stored registry.
C1_UniqueAgentIds ==
    \A i, j \in 1..Len(persisted.agents) :
        persisted.agents[i].id = persisted.agents[j].id => i = j

\* Two requests for the same agent id both wrote the configuration.
C1_Witness ==
    \E c, d \in Calls :
        /\ c # d
        /\ call[c].agentId = call[d].agentId
        /\ HasPersisted(c) /\ HasPersisted(d)
        /\ call[c].agentId \in AgentIds(persisted)

\* C2: of two requests in sequence with the same bot name and valid inputs,
\* the first (when it completes) responds ok:true and the second responds
\* INVALID_REQUEST "already exists", returns, and changes neither the stored
\* configuration nor any directory or file.
C2_SecondCallRejected ==
    [][ /\ \A c \in Calls :
              call'[c].pc = "done" =>
                  call'[c].resps = <<SimpleOk(call'[c].agentId,
                                              call'[c].workspaceDir,
                                              call'[c].recipe.id)>>
        /\ \A c, d \in Calls :
              ( /\ c < d
                /\ call[c].pc = "done" /\ RespondedOk(c)
                /\ call[d].pc = "idle" /\ call'[d].pc # "idle"
                /\ call'[d].botName = call[c].botName
                /\ call'[d].verdict \notin {"invalid params", "unknown recipe"} )
              => ( /\ RespondedInvalid(call'[d], "already exists")
                   /\ call'[d].pc = "returned"
                   /\ persisted' = persisted
                   /\ dirs' = dirs
                   /\ files' = files ) ]_vars

\* A second request with the bot name of a completed first one was answered.
C2_Witness ==
    \E c, d \in Calls :
        /\ c < d
        /\ call[c].pc = "done" /\ RespondedOk(c)
        /\ call[d].botName = call[c].botName
        /\ call[d].pc = "returned"
        /\ call[d].verdict = "already exists"
        /\ files # {}

Rejections == {"invalid params", "unknown recipe", "reserved", "already exists"}

\* C3: a request that fails schema validation, the recipe lookup, the
\* reserved-id check or the uniqueness check never changes the directories,
\* the files or the stored configuration: no step it takes changes them.
C3_RejectedCallHasNoEffect ==
    [][ \A c \in Calls :
            (call'[c] # call[c] /\ call'[c].verdict \in Rejections)
            => ( /\ persisted' = persisted
                 /\ dirs' = dirs
                 /\ files' = files
                 /\ call'[c].pc = "returned" ) ]_vars

\* A request was rejected as a duplicate while directories and files of an
\* earlier request exist.
C3_Witness ==
    \E c \in Calls :
        /\ call[c].verdict = "already exists"
        /\ call[c].pc = "returned"
        /\ dirs # {} /\ files # {}

\* C4: in every reachable state, after a failure at any step too, each
\* registry entry that onboard.simple added has its workspace directory and
\* its transcripts directory on disk.
C4_DirsBeforeConfig ==
    \A i \in 1..Len(persisted.agents) :
        persisted.agents[i].id \in provisioned =>
            /\ persisted.agents[i].workspace \in dirs
            /\ resolveSessionTranscriptsDirForAgent(persisted.agents[i].id) \in dirs

\* A request failed right after it wrote the configuration; its entry is
\* in the registry.
C4_Witness ==
    \E c \in Calls :
        /\ call[c].pc = "failed"
        /\ call[c].failedAt = "writeIdentity"
        /\ call[c].agentId \in AgentIds(persisted) \cap provisioned

\* The request stopped after making a directory and before the
\* configuration was written.
StoppedBeforePersist(c) ==
    /\ call[c].pc = "failed"
    /\ call[c].failedAt \in {"mkdirTranscripts", "writeConfig"}

SameInputs(c, d) ==
    /\ call[c].botName = call[d].botName
    /\ call[c].userName = call[d].userName
    /\ call[c].recipeId = call[d].recipeId
    /\ call[c].entityId = call[d].entityId

\* C5: when a request stops after creating directories and before the
\* configuration is written, its directories stay, the registry does not
\* get its agent id from it, and the next request with the same inputs
\* passes the uniqueness check and, when it completes, responds ok:true.
C5_RetryAfterEarlyFailure ==
    \A c \in Calls :
        StoppedBeforePersist(c) =>
            /\ call[c].workspaceDir \in dirs
            /\ call[c].failedAt = "writeConfig" =>
                   resolveSessionTranscriptsDirForAgent(call[c].agentId) \in dirs
            /\ (\A e \in Calls : call[e].agentId = call[c].agentId => ~HasPersisted(e))
                   => call[c].agentId \notin AgentIds(persisted)
            /\ \A d \in Calls :
                   ( /\ c < d
                     /\ call[d].pc # "idle"
                     /\ SameInputs(c, d)
                     /\ \A e \in Calls :
                            (e < d /\ call[e].agentId = call[c].agentId)
                                => ~HasPersisted(e) )
                   => ( /\ call[d].verdict = "ok"
                        /\ call[d].pc = "done" => RespondedOk(d) )

\* A request stopped at the configuration write and a later request with
\* the same inputs completed.
C5_Witness ==
    \E c, d \in Calls :
        /\ c < d
        /\ StoppedBeforePersist(c)
        /\ call[c].failedAt = "writeConfig"
        /\ SameInputs(c, d)
        /\ call[d].pc = "done" /\ RespondedOk(d)

\* The file-writing steps in the handler's order.
FileStepOrder ==
    <<"writeIdentity", "writeUser", "writeSoul", "writeAgents", "writeTools">>

StepIndex(step) == CHOOSE i \in 1..Len(FileStepOrder) : FileStepOrder[i] = step

C7_RegistryOnlyGrows ==
    [][ \A id \in AgentIds(persisted) \cap provisioned :
            id \in AgentIds(persisted') ]_vars

\* C8: two requests for the same agent id that both complete have both
\* loaded a configuration without that id and both responded ok:true; the
\* uniqueness check does not order them.
C8_RaceBothSucceed ==
    \A c, d \in Calls :
        ( /\ c # d
          /\ call[c].agentId = call[d].agentId
          /\ call[c].pc = "done" /\ call[d].pc = "done" )
        => ( /\ call[c].agentId \notin AgentIds(call[c].cfg)
             /\ call[d].agentId \notin AgentIds(call[d].cfg)
             /\ RespondedOk(c) /\ RespondedOk(d) )

\* Request d loaded its configuration while request c, for the same agent
\* id, had passed the check and not yet written; both wrote and both
\* responded ok:true.
C8_Witness ==
    \E c, d \in Calls :
        /\ c \in call[d].overlap
        /\ call[c].pc = "done" /\ call[d].pc = "done"
        /\ RespondedOk(c) /\ RespondedOk(d)
        /\ call[c].agentId = call[d].agentId

(* ------------------------------------------------------------------ *)
(* Properties of connect_multiple                                     *)
(* ------------------------------------------------------------------ *)

\* The batch passed the size checks and returned its connections list.
BatchReturned == tool.action = "connect_multiple" /\ tool.phase = "returned"

\* The items of the batch whose initiate call failed.
FailedItems == {i \in 1..Len(tool.items) : ~tool.items[i].reply.ok}

\* C9: when exactly item k of a batch fails at the broker, the result list
\* is as long as appNames, result i carries input name i, item k alone has
\* an error and null connectedAccountId and redirectUrl, and every other
\* item has no error and the connectedAccountId the broker gave it.
C9_OneFailureIsolated ==
    (BatchReturned /\ Cardinality(FailedItems) = 1) =>
        /\ Len(tool.output) = Len(tool.appNames)
        /\ \A i \in 1..Len(tool.appNames) :
              /\ tool.output[i].appName = toUpperCase(tool.appNames[i])
              /\ i \in FailedItems =>
                    /\ tool.output[i].error # Null
                    /\ tool.output[i].connectedAccountId = Null
                    /\ tool.output[i].redirectUrl = Null
              /\ i \notin FailedItems =>
                    /\ tool.output[i].error = Null
                    /\ tool.output[i].connectedAccountId =
                          Some(tool.items[i].reply.connectedAccountId)

\* A batch of two returned; its first item failed, after the second one
\* had succeeded.
C9_Witness ==
    /\ BatchReturned
    /\ Len(tool.appNames) = 2
    /\ FailedItems = {1}
    /\ tool.order = <<2, 1>>

\* C10: whatever the order in which the initiate calls complete or fail,
\* element i of the returned list is the outcome of input name i: it
\* carries that name and what the broker answered to that name's request.
C10_ResultOrderIsInputOrder ==
    BatchReturned =>
        /\ Len(tool.output) = Len(tool.appNames)
        /\ \A i \in 1..Len(tool.appNames) :
              /\ tool.output[i].appName = toUpperCase(tool.appNames[i])
              /\ tool.items[i].request.appName = tool.output[i].appName
              /\ tool.items[i].reply.ok =>
                    /\ tool.output[i].connectedAccountId =
                          Some(tool.items[i].reply.connectedAccountId)
                    /\ tool.output[i].error = Null
              /\ ~tool.items[i].reply.ok =>
                    /\ tool.output[i].connectedAccountId = Null
                    /\ tool.output[i].error # Null

\* A batch of two different names returned whose second item completed
\* first.
C10_Witness ==
    /\ BatchReturned
    /\ Len(tool.appNames) = 2
    /\ tool.appNames[1] # tool.appNames[2]
    /\ tool.order = <<2, 1>>
    /\ FailedItems = {}

\* A connect_multiple invocation that had a client.
BatchWithClient == tool.action = "connect_multiple" /\ tool.client # Null

\* The ceiling on a batch: config.maxAccountsPerUser, 20 when unset.
Ceiling ==
    IF toolOpts.maxAccountsPerUser = Null THEN 20
    ELSE toolOpts.maxAccountsPerUser[1]

\* C11: a connect_multiple batch that passes the size checks issues exactly
\* one broker initiate call per input item, for that item's name, whatever
\* the other items' calls answer; it never throws; and it returns only when
\* every item has settled, with a result list as long as the input.
C11_OneCallPerItemAndBatchReturns ==
    (BatchWithClient /\ Len(tool.appNames) >= 1
                     /\ Len(tool.appNames) <= Ceiling) =>
        /\ tool.phase \in {"awaiting", "returned"}
        /\ tool.issued = Len(tool.appNames)
        /\ Len(tool.items) = Len(tool.appNames)
        /\ \A i \in 1..Len(tool.items) :
              tool.items[i].request.appName = toUpperCase(tool.appNames[i])
        /\ tool.phase = "returned" =>
              /\ \A i \in 1..Len(tool.items) : tool.items[i].settled
              /\ Len(tool.output) = Len(tool.appNames)
              /\ tool.error = ""

\* A batch of two returned its list although both items failed at the
\* broker, each after its own call.
C11_Witness ==
    /\ BatchReturned
    /\ Len(tool.appNames) = 2
    /\ FailedItems = {1, 2}
    /\ tool.issued = 2
    /\ brokerCalls = 2

\* C12: a connect_multiple invocation whose list of names is empty (no
\* appNames entries and no single appName) throws, and the broker receives
\* no call.
C12_EmptyBatchRejected ==
    [][(toolCalls' = toolCalls + 1 /\ tool'.action = "connect_multiple"
                                   /\ tool'.appNames = <<>>) =>
          /\ tool'.phase = "threw"
          /\ tool'.error # ""
          /\ tool'.client # Null =>
                tool'.error = "appNames required for connect_multiple"
          /\ tool'.items = <<>>
          /\ brokerCalls' = brokerCalls
          /\ brokerAccounts' = brokerAccounts]_vars

\* A tool with a client was given an empty list and threw.
C12_Witness ==
    /\ BatchWithClient
    /\ tool.appNames = <<>>
    /\ tool.phase = "threw"
    /\ brokerCalls = 0

\* C13: a connect_multiple invocation with more names than the ceiling
\* throws and the broker receives no call; one with exactly as many names
\* as the ceiling is accepted and its calls are issued.
C13_BatchCeiling ==
    [][(toolCalls' = toolCalls + 1 /\ tool'.action = "connect_multiple"
                                   /\ tool'.client # Null) =>
          /\ Len(tool'.appNames) > Ceiling =>
                /\ tool'.phase = "threw"
                /\ tool'.error # ""
                /\ tool'.items = <<>>
                /\ brokerCalls' = brokerCalls
          /\ Len(tool'.appNames) = Ceiling =>
                /\ tool'.phase = "awaiting"
                /\ brokerCalls' = brokerCalls + Ceiling]_vars

\* A batch of two names was refused under a ceiling of one.
C13_Witness ==
    /\ BatchWithClient
    /\ toolOpts.maxAccountsPerUser = Some(1)
    /\ Len(tool.appNames) = 2
    /\ tool.phase = "threw"
    /\ brokerCalls = 0

(* ------------------------------------------------------------------ *)
(* Properties of the broker client cache                              *)
(* ------------------------------------------------------------------ *)

\* The key and the base URL a configuration resolves to in this
\* environment: the configuration's trimmed value when it is not empty,
\* else the environment's; <<>> when there is none.
KeyOf(config) ==
    IF TrimOpt(config.apiKey) # <<>> THEN TrimOpt(config.apiKey)
    ELSE TrimOpt(env.COMPOSIO_API_KEY)

UrlOf(config) ==
    IF TrimOpt(config.baseUrl) # <<>> THEN Some(TrimOpt(config.baseUrl))
    ELSE IF TrimOpt(env.COMPOSIO_BASE_URL) # <<>>
         THEN Some(TrimOpt(env.COMPOSIO_BASE_URL))
         ELSE Null

\* C14: a getComposioClient call with a resolvable key whose resolved
\* (apiKey, baseUrl) equals the cached pair returns the cached client, the
\* one constructed with that pair, and constructs nothing; a call whose
\* pair differs constructs one new client with that pair, returns it, and
\* the cache then holds that client and that pair only.
C14_CacheHitAndReplace ==
    (lastGet.op = "get" /\ KeyOf(lastGet.config) # <<>>) =>
        LET key == KeyOf(lastGet.config)
            url == UrlOf(lastGet.config)
            b == lastGet.before
        IN IF b.cachedClient # Null /\ b.cachedApiKey = Some(key)
                                    /\ b.cachedBaseUrl = url
           THEN /\ lastGet.result = b.cachedClient
                /\ Len(clients) = b.made
                /\ clients[lastGet.result[1]] = [apiKey |-> key, baseUrl |-> url]
                /\ cachedClient = b.cachedClient
                /\ cachedApiKey = b.cachedApiKey
                /\ cachedBaseUrl = b.cachedBaseUrl
           ELSE /\ Len(clients) = b.made + 1
                /\ lastGet.result = Some(Len(clients))
                /\ clients[Len(clients)] = [apiKey |-> key, baseUrl |-> url]
                /\ cachedClient = lastGet.result
                /\ cachedApiKey = Some(key)
                /\ cachedBaseUrl = url

\* After a first client was replaced by a second one for another pair, a
\* call with the second pair got the second client back.
C14_Witness ==
    /\ lastGet.op = "get"
    /\ lastGet.prev = "get"
    /\ Len(clients) = 2
    /\ clients[1] # clients[2]
    /\ lastGet.before.cachedClient = Some(2)
    /\ lastGet.result = Some(2)

\* C15: getComposioClient returns null exactly when the configuration's
\* apiKey and the environment's COMPOSIO_API_KEY are both empty after
\* trimming; a client it returns was made with the configuration's key
\* when that is not empty, else with the environment's; and a call that
\* returns null constructs nothing and leaves the cache as it was.
C15_NullWithoutKey ==
    lastGet.op = "get" =>
        /\ lastGet.result = Null <=>
              (TrimOpt(lastGet.config.apiKey) = <<>>
               /\ TrimOpt(env.COMPOSIO_API_KEY) = <<>>)
        /\ lastGet.result # Null =>
              clients[lastGet.result[1]].apiKey =
                 (IF TrimOpt(lastGet.config.apiKey) # <<>>
                  THEN TrimOpt(lastGet.config.apiKey)
                  ELSE TrimOpt(env.COMPOSIO_API_KEY))
        /\ lastGet.result = Null =>
              /\ Len(clients) = lastGet.before.made
              /\ cachedClient = lastGet.before.cachedClient
              /\ cachedApiKey = lastGet.before.cachedApiKey
              /\ cachedBaseUrl = lastGet.before.cachedBaseUrl

\* With a client cached, a call whose key is only whitespace, in an
\* environment whose key is only whitespace, returned null and the cache
\* still holds that client.
C15_Witness ==
    /\ lastGet.op = "get"
    /\ lastGet.config.apiKey = Some(<<" ">>)
    /\ env.COMPOSIO_API_KEY = Some(<<" ">>)
    /\ lastGet.result = Null
    /\ cachedClient = Some(1)
    /\ Len(clients) = 1

\* C16: clearComposioClient leaves no cached client, key or base URL and
\* alters no constructed client; the getComposioClient call that follows
\* it, when its key is resolvable, constructs a new client, returns it and
\* leaves the clients constructed before as they were.
C16_ResetForcesNewClient ==
    [][/\ (lastGet'.op = "clear" /\ lastGet'.n = lastGet.n + 1) =>
             /\ cachedClient' = Null
             /\ cachedApiKey' = Null
             /\ cachedBaseUrl' = Null
             /\ clients' = clients
       /\ (lastGet.op = "clear" /\ lastGet'.op = "get"
                                /\ lastGet'.n = lastGet.n + 1
                                /\ KeyOf(lastGet'.config) # <<>>) =>
             /\ Len(clients') = Len(clients) + 1
             /\ lastGet'.result = Some(Len(clients'))
             /\ cachedClient' = lastGet'.result
             /\ \A i \in 1..Len(clients) : clients'[i] = clients[i]]_vars

\* A client was cached, the cache was reset, and a call with the same
\* key and base URL as before the reset got a second client.
C16_Witness ==
    /\ lastGet.op = "get"
    /\ lastGet.prev = "clear"
    /\ lastGet.dropped.cachedClient = Some(1)
    /\ lastGet.dropped.cachedApiKey = cachedApiKey
    /\ lastGet.dropped.cachedBaseUrl = cachedBaseUrl
    /\ lastGet.result = Some(2)
    /\ Len(clients) = 2
    /\ clients[1] = clients[2]

(* ------------------------------------------------------------------ *)
(* Properties of the one-call operations and the auth handlers        *)
(* ------------------------------------------------------------------ *)

\* The operations of the composio tool.
COMPOSIO_ACTIONS ==
    {"list_connections", "connect", "connect_multiple", "status",
     "disconnect", "execute"}

\* C17: without a broker credential (no key in the tool's configuration
\* nor in the environment) every operation of the composio tool throws
\* 'not configured' and issues no broker call; without a key in the
\* environment a valid onboard.auth.initiate or onboard.auth.status
\* request is answered once, with code UNAVAILABLE, and issues no broker
\* call.
C17_NotConfigured ==
    /\ (tool.action # "" /\ KeyOf(toolOpts) = <<>>) =>
          /\ tool.action \in COMPOSIO_ACTIONS
          /\ tool.phase = "threw"
          /\ tool.error = "Composio is not configured"
          /\ tool.issued = 0
          /\ tool.items = <<>>
          /\ tool.request = NoRequest
    /\ (rpc.method # "" /\ rpc.valid /\ KeyOf(NoComposioConfig) = <<>>) =>
          /\ rpc.phase = "done"
          /\ Len(rpc.resps) = 1
          /\ ~rpc.resps[1].ok
          /\ rpc.resps[1].code = "UNAVAILABLE"
          /\ rpc.issued = 0
          /\ rpc.request = NoRequest
    /\ (KeyOf(toolOpts) = <<>> /\ KeyOf(NoComposioConfig) = <<>>) =>
          /\ brokerCalls = 0
          /\ clients = <<>>

\* Without any credential, a disconnect threw 'not configured' and an
\* onboard.auth.status request was answered UNAVAILABLE; the broker was
\* never called.
C17_Witness ==
    /\ KeyOf(toolOpts) = <<>>
    /\ KeyOf(NoComposioConfig) = <<>>
    /\ tool.action = "disconnect"
    /\ tool.phase = "threw"
    /\ rpc.method = "onboard.auth.status"
    /\ rpc.valid
    /\ rpc.phase = "done"
    /\ brokerCalls = 0

\* C18: a status invocation that returns has issued its own broker get,
\* and the status it returns is the status in the record the broker
\* returned to that get, whatever that record is.
C18_StatusPassThrough ==
    (tool.action = "status" /\ tool.phase = "returned") =>
        /\ tool.issued = 1
        /\ tool.answer.settled
        /\ tool.answer.account.status = Some(tool.output[1].status)

\* C19: the broker receives calls only when an invocation starts, one for
\* a one-call operation and one per item for connect_multiple; and when
\* the call of a one-call operation settles, no further call is issued,
\* and if it threw the operation throws the broker's error and returns
\* nothing.
C19_NoRetry ==
    [][/\ brokerCalls' # brokerCalls =>
             /\ toolCalls' = toolCalls + 1
             /\ brokerCalls' = brokerCalls +
                   (IF tool' # tool /\ tool'.action = "connect_multiple"
                    THEN Len(tool'.appNames) ELSE 1)
       /\ (tool.phase = "awaiting" /\ tool.request.kind # "none"
                                   /\ tool' # tool) =>
             /\ tool'.answer.settled
             /\ tool'.issued = 1
             /\ brokerCalls' = brokerCalls
             /\ tool'.phase \in {"returned", "threw"}
             /\ ~tool'.answer.ok =>
                   /\ tool'.phase = "threw"
                   /\ tool'.error = tool'.answer.message
                   /\ tool'.output = <<>>
             /\ tool'.answer.ok =>
                   /\ tool'.phase = "returned"
                   /\ Len(tool'.output) = 1]_vars

\* A status invocation threw the broker's error after its single call.
C19_Witness ==
    /\ tool.action = "status"
    /\ tool.phase = "threw"
    /\ tool.answer.settled
    /\ ~tool.answer.ok
    /\ tool.error = tool.answer.message
    /\ tool.issued = 1
    /\ brokerCalls = 1

\* C20: a disconnect invocation with a client always issues the broker's
\* delete call; it returns {deleted:true, connectedAccountId} only when
\* that call succeeded, which removes the account at the broker; when the
\* call fails, as it does for an account that is not there, it throws the
\* broker's error, returns nothing, and the broker's records are as they
\* were.
C20_DisconnectConfirmsBrokerDelete ==
    [][/\ (tool' # tool /\ tool'.action = "disconnect"
                        /\ tool.phase # "awaiting"
                        /\ tool'.client # Null) =>
             /\ tool'.phase = "awaiting"
             /\ tool'.request.kind = "delete"
             /\ brokerCalls' = brokerCalls + 1
       /\ (tool.action = "disconnect" /\ tool.phase = "awaiting"
                                      /\ tool' # tool) =>
             LET id == tool.request.connectedAccountId[1]
             IN IF LiveAccount(Some(id)) /\ tool'.answer.ok
                THEN /\ tool'.phase = "returned"
                     /\ tool'.output = <<[deleted |-> TRUE,
                                          connectedAccountId |-> id]>>
                     /\ ~brokerRecords'[id].live
                ELSE /\ ~tool'.answer.ok
                     /\ tool'.phase = "threw"
                     /\ tool'.error = tool'.answer.message
                     /\ tool'.output = <<>>
                     /\ brokerRecords' = brokerRecords]_vars

\* A second disconnect of an account that an earlier disconnect removed
\* issued its own delete call and threw the broker's error.
C20_Witness ==
    /\ tool.action = "disconnect"
    /\ tool.request.connectedAccountId = Some(1)
    /\ ~brokerRecords[1].live
    /\ tool.phase = "threw"
    /\ ~tool.answer.ok
    /\ tool.issued = 1
    /\ toolCalls = 2
    /\ brokerCalls = 2

(* ------------------------------------------------------------------ *)
(* Properties of connect                                              *)
(* ------------------------------------------------------------------ *)

\* C21: for a connect invocation with a client, the app name in the
\* request submitted to the broker is the upper-cased input name, and the
\* appName field of the result it returns is the upper-cased input name.
C21_ConnectUpperCasesAppName ==
    (tool.action = "connect" /\ tool.client # Null) =>
        /\ tool.request.kind = "initiate"
        /\ tool.request.appName = toUpperCase(tool.appNames[1])
        /\ tool.phase = "returned" =>
              tool.output[1].appName = toUpperCase(tool.appNames[1])

(* ------------------------------------------------------------------ *)
(* Properties of the onboard handlers' responses                      *)
(* ------------------------------------------------------------------ *)

\* A failure response with a known code and a message.
WellFormedFailure(r) ==
    /\ ~r.ok
    /\ r.code \in {"INVALID_REQUEST", "UNAVAILABLE"}
    /\ r.msg # ""

\* C22: every failure response of onboard.recipes, onboard.auth.initiate,
\* onboard.auth.status and onboard.simple has a code in {INVALID_REQUEST,
\* UNAVAILABLE} and a message; a schema-invalid request, an unknown recipe,
\* a reserved id and a duplicate agent are answered INVALID_REQUEST; a
\* missing credential and a broker call that threw are answered
\* UNAVAILABLE, the latter by a response of the handler that awaited it.
C22_FailureCodes ==
    /\ \A c \in Calls :
          /\ \A i \in 1..Len(call[c].resps) :
                ~call[c].resps[i].ok => WellFormedFailure(call[c].resps[i])
          /\ call[c].verdict \in {"invalid params", "unknown recipe",
                                  "reserved", "already exists"} =>
                /\ Len(call[c].resps) = 1
                /\ WellFormedFailure(call[c].resps[1])
                /\ call[c].resps[1].code = "INVALID_REQUEST"
    /\ \A i \in 1..Len(rpc.resps) :
          ~rpc.resps[i].ok => WellFormedFailure(rpc.resps[i])
    /\ (rpc.method # "" /\ ~rpc.valid) =>
          /\ Len(rpc.resps) = 1
          /\ WellFormedFailure(rpc.resps[1])
          /\ rpc.resps[1].code = "INVALID_REQUEST"
    /\ (rpc.method \in {"onboard.auth.initiate", "onboard.auth.status"}
        /\ rpc.valid /\ rpc.client = Null) =>
          /\ Len(rpc.resps) = 1
          /\ WellFormedFailure(rpc.resps[1])
          /\ rpc.resps[1].code = "UNAVAILABLE"
    /\ (rpc.answer.settled /\ ~rpc.answer.ok) =>
          /\ rpc.phase = "done"
          /\ Len(rpc.resps) = 1
          /\ WellFormedFailure(rpc.resps[1])
          /\ rpc.resps[1].code = "UNAVAILABLE"

\* An onboard.simple request for a registered agent was answered
\* INVALID_REQUEST, and an onboard.auth.initiate request whose broker call
\* threw was answered UNAVAILABLE.
C22_Witness ==
    /\ call[1].verdict = "already exists"
    /\ call[1].resps # <<>>
    /\ rpc.method = "onboard.auth.initiate"
    /\ rpc.answer.settled
    /\ ~rpc.answer.ok
    /\ Len(rpc.resps) = 1
    /\ rpc.resps[1].code = "UNAVAILABLE"

\* C23: no onboard.simple request adds a registry entry or creates a
\* directory for the reserved default agent id, and none is answered
\* ok:true for it: a request whose name normalizes to that id is answered
\* once, INVALID_REQUEST, and returns without having loaded the
\* configuration.
C23_ReservedIdNeverOnboarded ==
    /\ \A i \in 1..Len(persisted.agents) :
          persisted.agents[i].id # DEFAULT_AGENT_ID
    /\ \A d \in dirs : d.id # DEFAULT_AGENT_ID
    /\ \A c \in Calls :
          (call[c].pc # "idle" /\ call[c].agentId = DEFAULT_AGENT_ID) =>
              /\ call[c].pc = "returned"
              /\ ~call[c].loaded
              /\ Len(call[c].resps) = 1
              /\ ~call[c].resps[1].ok
              /\ call[c].resps[1].code = "INVALID_REQUEST"

\* A request named "Main" with a known recipe was rejected as reserved
\* while another agent is registered with its directories.
C23_Witness ==
    \E c \in Calls :
        /\ call[c].verdict = "reserved"
        /\ call[c].botName = <<"M", "a", "i", "n">>
        /\ call[c].pc = "returned"
        /\ provisioned # {}
        /\ dirs # {}

\* C24: every success response of onboard.auth.status carries a status
\* that is one of INITIATED, ACTIVE, EXPIRED, FAILED and the id of an
\* account (a non-empty connectedAccountId), whatever record the broker
\* returned.
C24_AuthStatusResponseShape ==
    \A i \in 1..Len(rpc.resps) :
        (rpc.method = "onboard.auth.status" /\ rpc.resps[i].ok) =>
            /\ rpc.resps[i].status \in AccountStatuses
            /\ rpc.resps[i].connectedAccountId \in AccountIds

\* C25: every success response of onboard.auth.initiate carries a
\* non-empty redirectUrl and the id of the account the broker created (a
\* non-empty connectedAccountId).
C25_AuthInitiateResponseShape ==
    \A i \in 1..Len(rpc.resps) :
        (rpc.method = "onboard.auth.initiate" /\ rpc.resps[i].ok) =>
            /\ rpc.resps[i].redirectUrl # <<>>
            /\ rpc.resps[i].connectedAccountId \in AccountIds

(* ------------------------------------------------------------------ *)
(* Properties of the accounts initiated per entity                    *)
(* ------------------------------------------------------------------ *)

\* The accounts initiated for the entity "default", the one entity every
\* invocation of this tool is for: all the accounts the broker holds.
AccountsOfEntity == DOMAIN brokerRecords

\* C26: after any sequence of connect and connect_multiple invocations for
\* one entity, the accounts initiated for that entity are at most
\* maxAccountsPerUser (20 when not configured).
C26_AccountsPerEntityCapped ==
    /\ tool.client # Null => tool.entityId = <<"default">>
    /\ Cardinality(AccountsOfEntity) <= MaxAccountsOf(toolOpts)

(* ------------------------------------------------------------------ *)
(* Properties of the recipe catalogue                                 *)
(* ------------------------------------------------------------------ *)

\* The request got as far as looking its recipe up.
LookedUp(c) == call[c].pc # "idle" /\ call[c].verdict # "invalid params"

WriteOrder(recipe) ==
    <<"IDENTITY.md", "USER.md", "SOUL.md", "AGENTS.md">>
        \o (IF recipe.tools # "" THEN <<"TOOLS.md">> ELSE <<>>)

\* The names of the files in a workspace.
NamesIn(fs, dir) == {f.name : f \in {x \in fs : x.dir = dir}}

\* How many workspace files a request has written.
WrittenBy(k) ==
    LET at == IF k.pc = "failed" THEN k.failedAt ELSE k.pc
    IN CASE at = "writeUser" -> 1
         [] at = "writeSoul" -> 2
         [] at = "writeAgents" -> 3
         [] at = "writeTools" -> 4
         [] at = "done" -> Len(WriteOrder(k.recipe))
         [] OTHER -> 0

\* C28: every step of an onboard.simple request that writes a workspace
\* file writes the next file of the order identity, user, persona,
\* behaviour rules, tool notes (the last only when the recipe has them) and
\* nothing else; the first of them directly follows the write of the
\* configuration; a step that fails writes nothing and answers nothing, so
\* the files written are exactly the earlier ones; and ok:true is answered
\* only by the step that wrote the last file.
C28_FilesInOrderAfterConfig ==
    [][ \A c \in Calls :
          (call'[c] # call[c] /\ call[c].pc \in AwaitSteps) =>
              LET k == call[c]
                  n == WrittenBy(k)
                  order == WriteOrder(k.recipe)
              IN IF call'[c].pc = "failed"
                 THEN /\ files' = files
                      /\ persisted' = persisted
                      /\ call'[c].resps = <<>>
                      /\ WrittenBy(call'[c]) = n
                 ELSE /\ k.pc \in PrePersistSteps => files' = files
                      /\ k.pc = "writeConfig" <=> call'[c].pc = "writeIdentity"
                      /\ k.pc = "writeConfig" => persisted' = k.nextConfig
                      /\ k.pc \in FileSteps =>
                            /\ n < Len(order)
                            /\ NamesIn(files', k.workspaceDir) =
                                  NamesIn(files, k.workspaceDir) \cup {order[n + 1]}
                            /\ {x \in files' : x.dir # k.workspaceDir} =
                                  {x \in files : x.dir # k.workspaceDir}
                            /\ WrittenBy(call'[c]) = n + 1
                            /\ persisted' = persisted
                      /\ call'[c].resps # <<>> <=>
                            (k.pc \in FileSteps /\ n + 1 = Len(order))
                      /\ call'[c].resps # <<>> =>
                            /\ call'[c].resps = <<SimpleOk(k.agentId, k.workspaceDir,
                                                          k.recipe.id)>>
                            /\ call'[c].pc = "done" ]_vars

\* A request failed at its third write: its workspace holds the identity
\* and user files only, the configuration has its agent, and it answered
\* nothing.
C28_Witness ==
    \E c \in Calls :
        /\ call[c].pc = "failed"
        /\ call[c].failedAt = "writeSoul"
        /\ NamesIn(files, call[c].workspaceDir) = {"IDENTITY.md", "USER.md"}
        /\ findAgentEntryIndex(listAgentEntries(persisted), call[c].agentId) >= 0
        /\ call[c].resps = <<>>

(* ------------------------------------------------------------------ *)
(* Properties of the order of onboard.simple's checks                 *)
(* ------------------------------------------------------------------ *)

\* The four checks in the claim's order, each with what it reports, for
\* the parameters p against the stored configuration.
ChecksFailing(p, stored) ==
    LET agentId == normalizeAgentId(sanitizeLine(p.botName))
    IN << ~validateOnboardSimpleParams(p),
          ~(\E i \in 1..Len(RECIPES) : RECIPES[i].id = Trim(p.recipeId)),
          agentId = DEFAULT_AGENT_ID,
          \E i \in 1..Len(stored.agents) : stored.agents[i].id = agentId >>

CheckNames == <<"invalid params", "unknown recipe", "reserved", "already exists">>

\* What the first failing check reports; "ok" when none fails.
FirstFailing(p, stored) ==
    LET failing == ChecksFailing(p, stored)
    IN IF \E i \in 1..4 : failing[i]
       THEN CheckNames[CHOOSE i \in 1..4 :
                          failing[i] /\ \A j \in 1..(i - 1) : ~failing[j]]
       ELSE "ok"

\* The parameters a request's record is the reading of.
ReadAs(p, k) ==
    /\ sanitizeLine(p.botName) = k.botName
    /\ sanitizeLine(p.userName) = k.userName
    /\ Trim(p.recipeId) = k.recipeId
    /\ EntityIdOf(p) = k.entityId

\* C29: a request is checked in the order schema, recipe, reserved id,
\* uniqueness, and what it reports is the first check that fails: a
\* request that fails a check is answered once with that check's failure
\* and returns; one that fails the reserved-id check or an earlier one has
\* not loaded the configuration; one that fails none goes on.
C29_ChecksInOrder ==
    [][ \A c \in Calls :
          (call[c].pc = "idle" /\ call'[c].pc # "idle") =>
              /\ \E p \in SimpleParams : ReadAs(p, call'[c])
              /\ \A p \in SimpleParams :
                    ReadAs(p, call'[c]) =>
                        call'[c].verdict = FirstFailing(p, persisted)
              /\ call'[c].verdict \in {"invalid params", "unknown recipe",
                                       "reserved"} => ~call'[c].loaded
              /\ call'[c].verdict \in {"already exists", "ok"} => call'[c].loaded
              /\ IF call'[c].verdict = "ok"
                 THEN call'[c].resps = <<>> /\ call'[c].pc = "ensureWorkspace"
                 ELSE /\ call'[c].pc = "returned"
                      /\ call'[c].resps =
                            <<errorShape(ErrorCodes.INVALID_REQUEST,
                                         call'[c].verdict)>> ]_vars

\* A request that names an unknown recipe and whose name is reserved was
\* answered "unknown recipe", and another that names an unknown recipe for
\* a registered agent was answered the same.
C29_Witness ==
    \E c, d \in Calls :
        /\ call[c].verdict = "unknown recipe"
        /\ call[c].agentId = DEFAULT_AGENT_ID
        /\ call[c].botName # <<>>
        /\ call[d].verdict = "unknown recipe"
        /\ findAgentEntryIndex(listAgentEntries(persisted), call[d].agentId) >= 0

(* ------------------------------------------------------------------ *)
(* Properties of the integration flag                                 *)
(* ------------------------------------------------------------------ *)

\* C30: the configuration a successful onboard.simple request writes has
\* composio.enabled true when the request gave an entity id that is
\* non-empty after trimming, and otherwise has the flag as the request
\* loaded it (unset stays unset, false stays false); no step of any
\* request changes the flag to anything but true.
C30_EnabledOnlyWithEntityId ==
    [][ /\ \A c \in Calls :
              (call[c].pc = "writeConfig" /\ call'[c].pc = "writeIdentity") =>
                  /\ call[c].cfg.composioEnabled = persisted.composioEnabled
                  /\ persisted'.composioEnabled =
                        IF call[c].entityId # <<>> THEN "true"
                        ELSE persisted.composioEnabled
        /\ persisted'.composioEnabled # persisted.composioEnabled =>
              persisted'.composioEnabled = "true" ]_vars

\* A request without an entity id finished with the flag still unset, and
\* a later request with one finished and the flag is true.
C30_Witness ==
    /\ call[1].pc = "done"
    /\ call[1].entityId = <<>>
    /\ call[1].cfg.composioEnabled = "unset"
    /\ call[1].nextConfig.composioEnabled = "unset"
    /\ call[2].cfg.composioEnabled = "unset"
    /\ call[2].pc = "done"
    /\ call[2].entityId # <<>>
    /\ persisted.composioEnabled = "true"
    /\ RespondedOk(1) /\ RespondedOk(2)

(* ------------------------------------------------------------------ *)
(* Properties of the entity id of a tool invocation                   *)
(* ------------------------------------------------------------------ *)

\* The entity id the claim gives an invocation: the request's, else the
\* resolver's, else "default".
ExpectedEntity(t, opts) ==
    IF t.entityParam # Null THEN t.entityParam[1]
    ELSE IF opts.resolveEntityId # Null THEN opts.resolveEntityId[1]
    ELSE <<"default">>

\* The requests an invocation has submitted to the broker use this entity.
RequestsUse(t, entityId) ==
    /\ \A i \in 1..Len(t.items) : t.items[i].request.entityId = entityId
    /\ t.request.kind \in {"initiate", "getConnections", "execute"} =>
          t.request.entityId = entityId

\* C31: an invocation of the tool that has a client uses, in every broker
\* request it submits, the request's entityId when one is given, otherwise
\* the resolver's value when there is one, otherwise "default", whatever
\* the invocation before it used; all items of a connect_multiple batch
\* carry that one id, and it does not change while the invocation runs.
C31_EntityIdResolution ==
    [][ /\ (tool' # tool /\ tool.phase # "awaiting" /\ tool'.client # Null) =>
              /\ tool'.entityId = ExpectedEntity(tool', toolOpts)
              /\ RequestsUse(tool', ExpectedEntity(tool', toolOpts))
        /\ (tool' # tool /\ tool.phase = "awaiting") =>
              /\ tool'.entityId = tool.entityId
              /\ tool'.entityParam = tool.entityParam
              /\ RequestsUse(tool', tool.entityId) ]_vars

\* After a batch of two names was answered by the broker, a second
\* invocation, connect with an entity id on a tool that has a resolver,
\* submitted its request for the request's entity.
C31_Witness ==
    /\ toolCalls = 2
    /\ Len(brokerRecords) = 2
    /\ tool.action = "connect"
    /\ tool.phase = "awaiting"
    /\ tool.entityParam = Some(<<"u", "1">>)
    /\ toolOpts.resolveEntityId = Some(<<"session">>)
    /\ tool.request.entityId = <<"u", "1">>

(* ------------------------------------------------------------------ *)
(* Properties of list_connections                                     *)
(* ------------------------------------------------------------------ *)

\* The ids of the broker's live accounts, in the broker's order.
LiveIds ==
    SelectSeq([i \in 1..Len(brokerRecords) |-> i],
              LAMBDA i : brokerRecords[i].live)

\* C32: the step that ends a list_connections invocation has one of three
\* outcomes: the broker returned no connections and the tool returns an
\* empty list with a hint message; the broker returned connections and the
\* tool returns one record per broker record, in the broker's order; the
\* broker call threw and the tool throws that error and returns nothing.
C32_ListConnectionsOutcomes ==
    [][ (tool.action = "list_connections" /\ tool.phase = "awaiting"
         /\ tool' # tool) =>
            IF tool'.answer.ok
            THEN /\ tool'.phase = "returned"
                 /\ Len(tool'.output) = 1
                 /\ Len(tool'.output[1].connections) = Len(LiveIds)
                 /\ \A i \in 1..Len(LiveIds) :
                       tool'.output[1].connections[i].id = LiveIds[i]
                 /\ LiveIds = <<>> <=> tool'.output[1].message # ""
            ELSE /\ tool'.phase = "threw"
                 /\ tool'.output = <<>>
                 /\ tool'.error = tool'.answer.message
                 /\ tool'.error # "" ]_vars

\* list_connections returned the broker's two accounts in their order.
C32_Witness ==
    /\ tool.action = "list_connections"
    /\ tool.phase = "returned"
    /\ Len(tool.output[1].connections) = 2
    /\ tool.output[1].connections[1].id = 1
    /\ tool.output[1].connections[2].id = 2

(* ------------------------------------------------------------------ *)
(* Properties of initiateConnection                                   *)
(* ------------------------------------------------------------------ *)

\* The empty string.
EmptyText == <<>>

RECURSIVE WordsOf(_)
WordsOf(s) ==
    IF s = <<>> THEN <<>>
    ELSE IF IsSpace(Head(s)) THEN WordsOf(Tail(s))
    ELSE LET rest == WordsOf(Tail(s))
         IN IF Len(s) > 1 /\ ~IsSpace(s[2])
            THEN <<<<Head(s)>> \o Head(rest)>> \o Tail(rest)
            ELSE <<<<Head(s)>>>> \o rest

\* The words joined by single spaces.
RECURSIVE JoinWords(_)
JoinWords(ws) ==
    IF ws = <<>> THEN <<>>
    ELSE IF Len(ws) = 1 THEN ws[1]
    ELSE ws[1] \o <<" ">> \o JoinWords(Tail(ws))

\* Bot names that differ in leading, trailing and internal whitespace.
SpacedNames ==
    BotNames \cup { <<" ", "A", "\t", "\t", " ", "b">>, <<"H", "i", " ", " ">>,
                    <<"\t", "M", "a", "i", "n">> }

\* C34: two bot names with the same words (differing only in leading or
\* trailing whitespace or in the length of internal whitespace runs) have
\* the same sanitized form, the words joined by single spaces, and so the
\* same agentId; sanitizing a sanitized name changes nothing; and a request
\* that follows a request which registered its agent, with a name of the
\* same words, is rejected as a duplicate.
C34_AgentIdFromSanitizedName ==
    /\ \A b \in SpacedNames :
          /\ sanitizeLine(b) = JoinWords(WordsOf(b))
          /\ sanitizeLine(sanitizeLine(b)) = sanitizeLine(b)
    /\ \A b1, b2 \in SpacedNames :
          WordsOf(b1) = WordsOf(b2) =>
              /\ sanitizeLine(b1) = sanitizeLine(b2)
              /\ normalizeAgentId(sanitizeLine(b1)) =
                    normalizeAgentId(sanitizeLine(b2))
    /\ \A c \in Calls :
          call[c].pc # "idle" =>
              /\ call[c].botName = JoinWords(WordsOf(call[c].botName))
              /\ call[c].agentId = normalizeAgentId(call[c].botName)
    /\ \A c, d \in Calls :
          (c < d /\ HasPersisted(c) /\ call[d].pc # "idle"
           /\ WordsOf(call[c].botName) = WordsOf(call[d].botName)
           /\ call[d].verdict \notin {"invalid params", "unknown recipe"}) =>
              /\ call[d].verdict = "already exists"
              /\ call[d].pc = "returned"
              /\ RespondedInvalid(call[d], "already exists")

\* The first request, whose name reads "A b" as "A  b" does, registered
\* agent a-b in an empty registry and answered ok; the second, whose name
\* reads the same, was rejected as a duplicate.
C34_Witness ==
    /\ call[1].pc = "done"
    /\ call[1].cfg.agents = <<>>
    /\ RespondedOk(1)
    /\ call[1].botName = sanitizeLine(<<"A", " ", " ", "b">>)
    /\ call[2].botName = sanitizeLine(<<"A", " ", "b">>)
    /\ call[2].agentId = call[1].agentId
    /\ call[2].verdict = "already exists"
    /\ RespondedInvalid(call[2], "already exists")

(* ------------------------------------------------------------------ *)
(* Properties of the handlers' responses over time                    *)
(* ------------------------------------------------------------------ *)

\* C35: no invocation of onboard.recipes, onboard.auth.initiate,
\* onboard.auth.status or onboard.simple responds more than once, and
\* every invocation that has started eventually has responded exactly
\* once, also when a directory creation, the configuration write or a
\* workspace file write fails.
C35_RespondsExactlyOnce ==
    /\ [](\A c \in Calls : Len(call[c].resps) <= 1)
    /\ [](Len(rpc.resps) <= 1)
    /\ \A c \in Calls : (call[c].pc # "idle") ~> (Len(call[c].resps) = 1)
    /\ (rpc.method # "") ~> (Len(rpc.resps) = 1)

(* ------------------------------------------------------------------ *)
(* Properties of the client cache as a whole                          *)
(* ------------------------------------------------------------------ *)

\* C36: in every state reached by getComposioClient and clearComposioClient
\* calls of any callers, the cache is empty (client, key and base URL all
\* null) or its client is the one constructed with exactly the cached key
\* and the cached base URL; and the client a call got was constructed with
\* the key and the base URL that call resolved, not another call's.
C36_CacheConsistent ==
    /\ \/ /\ cachedClient = Null
          /\ cachedApiKey = Null
          /\ cachedBaseUrl = Null
       \/ /\ cachedClient # Null
          /\ cachedApiKey # Null
          /\ cachedClient[1] \in 1..Len(clients)
          /\ clients[cachedClient[1]] =
                [apiKey |-> cachedApiKey[1], baseUrl |-> cachedBaseUrl]
    /\ (lastGet.op = "get" /\ lastGet.result # Null) =>
          /\ lastGet.result[1] \in 1..Len(clients)
          /\ clients[lastGet.result[1]] =
                [apiKey |-> KeyOf(lastGet.config),
                 baseUrl |-> UrlOf(lastGet.config)]

\* After a client was cached and the cache was reset, a call with another
\* key and base URL cached a second client, constructed with that pair.
C36_Witness ==
    /\ lastGet.op = "get"
    /\ lastGet.prev = "clear"
    /\ Len(clients) = 2
    /\ clients[1].apiKey # clients[2].apiKey
    /\ clients[1].baseUrl # clients[2].baseUrl
    /\ cachedClient = Some(2)
    /\ cachedApiKey = Some(clients[2].apiKey)
    /\ cachedBaseUrl = clients[2].baseUrl

=============================================================================
